---- MODULE Spec2Model ----
(***************************************************************************)
(* The RO hydraulic engine of src/src/utils/calculatorService.js:          *)
(* calculateSystem, calculateIonPassage and runHydraulicBalance, as a      *)
(* caller that holds one configuration object and invokes the three        *)
(* operations on it.                                                       *)
(*                                                                         *)
(* JavaScript numbers are modelled as exact rationals <<n, d>> (d > 0,     *)
(* lowest terms), extended by NaN = <<0, 0>>, +Infinity = <<1, 0>> and     *)
(* -Infinity = <<-1, 0>>; the values undefined and null are <<0, -1>> and  *)
(* <<0, -2>>.  Math.exp and Math.pow are tabulated to four decimals for    *)
(* the arguments the bounded inputs produce.                               *)
(***************************************************************************)
EXTENDS Integers, Sequences, FiniteSets, TLC

(***************************************************************************)
(* JavaScript values and arithmetic                                        *)
(***************************************************************************)
NaN == <<0, 0>>
PosInf == <<1, 0>>
NegInf == <<-1, 0>>
Undefined == <<0, -1>>
Null == <<0, -2>>

Abs(i) == IF i < 0 THEN -i ELSE i
Sign(i) == IF i < 0 THEN -1 ELSE IF i > 0 THEN 1 ELSE 0

RECURSIVE GCD(_, _)
GCD(a, b) == IF b = 0 THEN a ELSE GCD(b, a % b)

\* n/d with the common factor g taken out and the sign carried by the numerator
LowestTerms(n, d, g) ==
  IF d < 0 THEN <<-(n \div g), -(d \div g)>> ELSE <<n \div g, d \div g>>

\* the rational n/d in lowest terms; a zero denominator gives NaN or an infinity
Rat(n, d) ==
  IF d = 0 THEN <<Sign(n), 0>> ELSE LowestTerms(n, d, GCD(Abs(n), Abs(d)))

Num(i) == <<i, 1>>
Zero == <<0, 1>>
One == <<1, 1>>

IsUndefined(v) == v = Undefined
IsNull(v) == v = Null
IsNullish(v) == v[2] < 0
IsNaN(x) == x = NaN
IsFinite(x) == x[2] > 0

\* Number(v): undefined -> NaN, null -> 0, a number -> itself
ToNumber(v) == IF v = Undefined THEN NaN ELSE IF v = Null THEN Zero ELSE v

Neg(x) == <<-x[1], x[2]>>

\* gn * sum in lowest terms
AddScaled(gn, sum) ==
  <<(gn \div GCD(gn, sum[2])) * sum[1], sum[2] \div GCD(gn, sum[2])>>

\* x + y for finite nonzero x and y, g and gn the common factors of the denominators
\* and of the numerators
AddFinite(x, y, g, gn) ==
  AddScaled(gn, Rat((x[1] \div gn) * (y[2] \div g) + (y[1] \div gn) * (x[2] \div g),
                    (x[2] \div g) * y[2]))

\* x + y; the common factor of the numerators is taken out before cross-multiplying
Add(x, y) ==
  IF IsNaN(x) \/ IsNaN(y) THEN NaN
  ELSE IF x[2] = 0 /\ y[2] = 0 THEN (IF x = y THEN x ELSE NaN)
  ELSE IF x[2] = 0 THEN x
  ELSE IF y[2] = 0 THEN y
  ELSE IF x[1] = 0 THEN y
  ELSE IF y[1] = 0 THEN x
  ELSE AddFinite(x, y, GCD(x[2], y[2]), GCD(Abs(x[1]), Abs(y[1])))

Sub(x, y) == Add(x, Neg(y))

\* x * y for finite x and y, g1 and g2 the factors common to a numerator and the
\* other side's denominator
MulFinite(x, y, g1, g2) ==
  <<(x[1] \div g1) * (y[1] \div g2), (x[2] \div g2) * (y[2] \div g1)>>

Mul(x, y) ==
  IF IsNaN(x) \/ IsNaN(y) THEN NaN
  ELSE IF x[2] = 0 \/ y[2] = 0
    THEN (IF x[1] = 0 \/ y[1] = 0 THEN NaN ELSE <<Sign(x[1]) * Sign(y[1]), 0>>)
  ELSE MulFinite(x, y, GCD(Abs(x[1]), y[2]), GCD(Abs(y[1]), x[2]))

\* x / y with the IEEE results for a zero or infinite divisor
Div(x, y) ==
  IF IsNaN(x) \/ IsNaN(y) THEN NaN
  ELSE IF y[2] = 0 THEN (IF x[2] = 0 THEN NaN ELSE Zero)
  ELSE IF y[1] = 0 THEN (IF x[1] = 0 THEN NaN ELSE <<Sign(x[1]), 0>>)
  ELSE IF x[2] = 0 THEN <<Sign(x[1]) * Sign(y[1]), 0>>
  ELSE Mul(x, Rat(y[2], y[1]))

\* x < y; false when either side is NaN
Lt(x, y) ==
  IF IsNaN(x) \/ IsNaN(y) THEN FALSE
  ELSE IF x[2] = 0 \/ y[2] = 0
    THEN (IF x[2] = 0 /\ y[2] = 0 THEN x[1] < y[1]
          ELSE IF x[2] = 0 THEN x[1] < 0
          ELSE y[1] > 0)
  ELSE x[1] * (y[2] \div GCD(x[2], y[2])) < y[1] * (x[2] \div GCD(x[2], y[2]))

Gt(x, y) == Lt(y, x)
Le(x, y) == ~IsNaN(x) /\ ~IsNaN(y) /\ ~Lt(y, x)
Ge(x, y) == Le(y, x)
\* x === y on numbers
NumEq(x, y) == ~IsNaN(x) /\ x = y

\* Math.max / Math.min of two numbers: NaN when either is NaN
MathMax(x, y) == IF IsNaN(x) \/ IsNaN(y) THEN NaN ELSE IF Lt(x, y) THEN y ELSE x
MathMin(x, y) == IF IsNaN(x) \/ IsNaN(y) THEN NaN ELSE IF Lt(y, x) THEN y ELSE x

\* x || dflt on numbers: 0 and NaN are falsy
OrElse(x, dflt) == IF IsNaN(x) \/ x = Zero THEN dflt ELSE x

RECURSIVE Pow10(_)
Pow10(k) == IF k = 0 THEN 1 ELSE 10 * Pow10(k - 1)

\* one more digit: prev is <<digits so far, remainder>>
LongDivStep(prev, d) ==
  <<prev[1] * 10 + ((prev[2] * 10) \div d), (prev[2] * 10) % d>>

\* the first k decimal digits of r/d (0 <= r < d) as <<digits, remainder>>
RECURSIVE LongDiv(_, _, _)
LongDiv(r, d, k) ==
  IF k = 0 THEN <<0, r>> ELSE LongDivStep(LongDiv(r, d, k - 1), d)

\* |x| rounded half up at `digits` decimals, ld its fractional digits and remainder
Rounded(x, digits, ld) ==
  Rat(Sign(x[1]) * ((Abs(x[1]) \div x[2]) * Pow10(digits) + ld[1]
                    + (IF 2 * ld[2] >= x[2] THEN 1 ELSE 0)),
      Pow10(digits))

\* Number(x.toFixed(digits)): round half away from zero to `digits` decimals
ToFixed(x, digits) ==
  IF x[2] <= 0 THEN x
  ELSE Rounded(x, digits, LongDiv(Abs(x[1]) % x[2], x[2], digits))

(***************************************************************************)
(* Math.exp and Math.pow, tabulated to four decimals                        *)
(***************************************************************************)
ExpTable ==
  <<10070, 10141, 10212, 10284, 10356, 10429, 10502, 10576, 10650, 10725,
    10800, 10876, 10953, 11030, 11107, 11185, 11264, 11343, 11422, 11503,
    11584, 11665, 11747, 11829, 11912, 11996, 12080, 12165, 12251, 12337,
    12423, 12511, 12599, 12687, 12776, 12866, 12956, 13047, 13139, 13231,
    13324, 13418, 13512, 13607, 13703, 13799, 13896, 13993, 14092, 14191,
    14290, 14391, 14492, 14594, 14696, 14799, 14903, 15008, 15113, 15220,
    15327, 15434, 15543, 15652, 15762, 15872, 15984, 16096, 16209, 16323,
    16438, 16553, 16670, 16787, 16905, 17023, 17143, 17263, 17385, 17507,
    17630, 17754, 17878, 18004, 18130, 18258, 18386, 18515, 18645, 18776,
    18908, 19041, 19175, 19309, 19445, 19581, 19719, 19858, 19997>>

\* e^(0.7 * pct / 100) for a whole percentage pct in 0..100
ExpOfPercent(pct) ==
  CASE pct = Zero -> One
    [] pct[2] = 1 /\ pct[1] \in 1..99 -> Rat(ExpTable[pct[1]], 10000)
    [] pct = Num(100) -> Rat(20138, 10000)

\* Math.exp(x) for x = 0.7 * pct / 100
MathExp(x) == ExpOfPercent(Div(Mul(x, Num(1000)), Num(7)))

\* Math.pow(10, x) for the exponents pKa1 - pH and pH - pKa2 of the modelled pH values
MathPow10(x) ==
  CASE x = Rat(-65, 100) -> Rat(2239, 10000)    \* 10^(6.35 - 7.0)
    [] x = Rat(-215, 100) -> Rat(71, 10000)     \* 10^(6.35 - 8.5)
    [] x = Rat(-183, 100) -> Rat(148, 10000)    \* 10^(8.5 - 10.33)

(***************************************************************************)
(* Module-level exports (calculatorService.js lines 3-66)                   *)
(***************************************************************************)
\* 0.00378541 / 24 has no 32-bit quotient form; gpd is carried to six digits
FLOW_TO_M3H ==
  ("gpm" :> Rat(22712, 100000)) @@ ("m3h" :> One) @@ ("m3/h" :> One) @@
  ("m3d" :> Rat(1, 24)) @@ ("m3/d" :> Rat(1, 24)) @@
  ("gpd" :> Rat(157725, 1000000000)) @@ ("mgd" :> Rat(157725, 1000)) @@
  ("migd" :> Rat(18942, 100)) @@ ("mld" :> Rat(416667, 10000))

FLUX_CONSTANTS ==
  [gpm |-> Rat(556, 10000), m3h |-> Rat(372, 10000), m3d |-> Rat(893, 1000)]

NoOverrides == <<>>

MEMBRANES ==
  << [id |-> "espa2ld", area |-> Num(400), areaM2 |-> Undefined,
      rejection |-> Rat(997, 10), monoRejection |-> Rat(993, 10),
      divalentRejection |-> Rat(998, 10), boronRejection |-> Num(90),
      silicaRejection |-> Num(99), alkalinityRejection |-> Rat(995, 10),
      co2Rejection |-> Zero, aValue |-> Rat(12, 100),
      ionRejectionOverrides |-> NoOverrides],
     [id |-> "cpa3", area |-> Num(404), areaM2 |-> Undefined,
      rejection |-> Rat(997, 10), monoRejection |-> Rat(993, 10),
      divalentRejection |-> Rat(999, 10), boronRejection |-> Num(90),
      silicaRejection |-> Num(99), alkalinityRejection |-> Rat(995, 10),
      co2Rejection |-> Zero, aValue |-> Rat(8, 100),
      ionRejectionOverrides |-> NoOverrides],
     [id |-> "lfc3ld4040", area |-> Num(404), areaM2 |-> Undefined,
      rejection |-> Rat(996, 10), monoRejection |-> Rat(991, 10),
      divalentRejection |-> Rat(997, 10), boronRejection |-> Num(87),
      silicaRejection |-> Num(98), alkalinityRejection |-> Num(99),
      co2Rejection |-> Zero, aValue |-> Rat(12, 100),
      ionRejectionOverrides |-> NoOverrides] >>

BAR_TO_PSI == Rat(145038, 10000)
LMH_TO_GFD == Rat(1000, 1699)

\* the object {} : every property reads undefined
EmptyObject ==
  [id |-> "", area |-> Undefined, areaM2 |-> Undefined, rejection |-> Undefined,
   monoRejection |-> Undefined, divalentRejection |-> Undefined,
   boronRejection |-> Undefined, silicaRejection |-> Undefined,
   alkalinityRejection |-> Undefined, co2Rejection |-> Undefined,
   aValue |-> Undefined, ionRejectionOverrides |-> NoOverrides]

(***************************************************************************)
(* Objects keyed by ion: a sequence of [ion, conc] in insertion order       *)
(***************************************************************************)
HasKey(map, key) == \E i \in 1..Len(map) : map[i].ion = key

\* map[key], undefined when the key is absent
Get(map, key) ==
  IF HasKey(map, key)
  THEN map[CHOOSE i \in 1..Len(map) : map[i].ion = key].conc
  ELSE Undefined

\* map[key] = value: overwrite in place or append
Put(map, key, value) ==
  IF HasKey(map, key)
  THEN [i \in 1..Len(map) |-> IF map[i].ion = key THEN [ion |-> key, conc |-> value] ELSE map[i]]
  ELSE Append(map, [ion |-> key, conc |-> value])

RECURSIVE SumSeq(_)
SumSeq(s) == IF s = <<>> THEN Zero ELSE Add(SumSeq(SubSeq(s, 1, Len(s) - 1)), s[Len(s)])

(***************************************************************************)
(* calculateSystem (calculatorService.js lines 68-433)                      *)
(***************************************************************************)
\* destructuring default: applies to undefined only
Default(v, dflt) == IF v = Undefined THEN dflt ELSE v

\* the locals so far together with the ones computed from them
With(c, more) == c @@ more

GpmFamily == {"gpm", "gpd", "mgd", "migd"}

flowUnitOf(in) == IF in.flowUnit = "" THEN "gpm" ELSE in.flowUnit

isGpm(flowUnit) == flowUnit \in GpmFamily

\* the clamp with its ceiling at 100
recoveryPctToHundred(recovery) ==
  MathMin(MathMax(OrElse(ToNumber(recovery), Zero), One), Num(100))

\* Math.min(Math.max(Number(recovery) || 0, 1), 99)
recoveryPct(recovery) ==
  MathMin(MathMax(OrElse(ToNumber(recovery), Zero), One), Num(99))

\* Number(feedPH) || 7.0, feedPH defaulting to 7.0
feedPhValue(feedPH) == OrElse(ToNumber(Default(feedPH, Num(7))), Num(7))

\* feedIons || {} : the entries of the caller's map
entriesOf(feedIons) == IF feedIons.kind = "object" THEN feedIons.items ELSE <<>>

\* Number(map[key]) || 0
ionValue(map, key) == OrElse(ToNumber(Get(map, key)), Zero)

\* lines 92-97: dissolved CO2 derived from bicarbonate when none is given
withCo2(copy, ph) ==
  IF ionValue(copy, "co2") = Zero /\ Gt(ionValue(copy, "hco3"), Zero)
  THEN Put(copy, "co2", Mul(ionValue(copy, "hco3"), MathPow10(Sub(Rat(635, 100), ph))))
  ELSE copy

\* lines 98-103: carbonate derived from bicarbonate at pH 8.2 and above; hco3Val and
\* co3Val are the values read at lines 88-90, before the map is written
withCo3(copy, map, ph) ==
  IF ionValue(copy, "co3") = Zero /\ Gt(ionValue(copy, "hco3"), Zero) /\ Ge(ph, Rat(82, 10))
  THEN Put(map, "co3", Mul(ionValue(copy, "hco3"), MathPow10(Sub(ph, Rat(1033, 100)))))
  ELSE map

\* { ...(feedIons || {}) } followed by the bicarbonate speciation
normalizedFeedIons(feedIons, ph) ==
  withCo3(entriesOf(feedIons), withCo2(entriesOf(feedIons), ph), ph)

\* FLOW_TO_M3H[flowUnit] without the fallback: undefined for a unit the table lacks
unitFactorUnguarded(table, flowUnit) ==
  IF flowUnit \in DOMAIN table THEN table[flowUnit] ELSE NaN

\* FLOW_TO_M3H[flowUnit] || 1
unitFactorOf(table, flowUnit) ==
  IF flowUnit \in DOMAIN table THEN OrElse(table[flowUnit], One) ELSE One

\* the feed flow taken as totalFlowM3h * recFrac
feedFlowTimesRecovery(totalFlowM3h, recFrac) ==
  IF Gt(recFrac, Zero) THEN Mul(totalFlowM3h, recFrac) ELSE Zero

\* recFrac > 0 ? totalFlowM3h / recFrac : 0
feedFlowTotal(totalFlowM3h, recFrac) ==
  IF Gt(recFrac, Zero) THEN Div(totalFlowM3h, recFrac) ELSE Zero

\* Math.max(feedFlowTotalM3h - totalFlowM3h, 0)
concentrateFlowTotal(feedFlowTotalM3h, totalFlowM3h) ==
  MathMax(Sub(feedFlowTotalM3h, totalFlowM3h), Zero)

\* Array.isArray(stages) ? stages.filter(stage => Number(stage?.vessels) > 0) : []
activeStagesOf(stages) ==
  IF stages.kind = "array"
  THEN SelectSeq(stages.items, LAMBDA st : Gt(ToNumber(st.vessels), Zero))
  ELSE <<>>

\* membranes.find(m => m.id === id), undefined rendered as the empty sequence
FindMembrane(membranes, id) ==
  IF id # "" /\ \E i \in 1..Len(membranes) : membranes[i].id = id
  THEN <<membranes[CHOOSE i \in 1..Len(membranes) :
            /\ membranes[i].id = id
            /\ \A j \in 1..(i - 1) : membranes[j].id # id]>>
  ELSE <<>>

\* membranes.find(m => m.id === activeMembraneId) || membranes[0] || {}
activeMembraneOf(membranes, activeMembraneId) ==
  IF FindMembrane(membranes, activeMembraneId) # <<>>
    THEN FindMembrane(membranes, activeMembraneId)[1]
  ELSE IF membranes # <<>> THEN membranes[1]
  ELSE EmptyObject

\* membranes.find(m => m.id === stage?.membraneModel) || activeMembrane
stageMembraneOf(membranes, stage, activeMembrane) ==
  IF FindMembrane(membranes, stage.membraneModel) # <<>>
  THEN FindMembrane(membranes, stage.membraneModel)[1]
  ELSE activeMembrane

\* Number(activeStages[i]?.vessels) || Number(vessels) || 1
stageVesselsOr(activeStages, i, vessels) ==
  OrElse(IF i \in 1..Len(activeStages) THEN ToNumber(activeStages[i].vessels) ELSE NaN,
         OrElse(ToNumber(vessels), One))

\* (Number(stage?.vessels) || 0) * (Number(stage?.elementsPerVessel) || 0)
stageElementCount(stage) ==
  Mul(OrElse(ToNumber(stage.vessels), Zero), OrElse(ToNumber(stage.elementsPerVessel), Zero))

\* sum over the active stages of vessels * elementsPerVessel
RECURSIVE stageElementsSum(_)
stageElementsSum(stages) ==
  IF stages = <<>> THEN Zero
  ELSE Add(stageElementsSum(SubSeq(stages, 1, Len(stages) - 1)),
           stageElementCount(stages[Len(stages)]))

\* sum over the active stages of vessels * elements * (Number(stageMembrane?.area) || areaPerElement)
RECURSIVE stageAreaSqFtSum(_, _, _, _)
stageAreaSqFtSum(stages, membranes, activeMembrane, areaPerElement) ==
  IF stages = <<>> THEN Zero
  ELSE Add(stageAreaSqFtSum(SubSeq(stages, 1, Len(stages) - 1), membranes, activeMembrane, areaPerElement),
           Mul(stageElementCount(stages[Len(stages)]),
               OrElse(ToNumber(stageMembraneOf(membranes, stages[Len(stages)], activeMembrane).area),
                      areaPerElement)))

\* Number(m?.areaM2) || (Number(m?.area || 400) * (37 / 400))
membraneAreaM2(m) ==
  OrElse(ToNumber(m.areaM2),
         Mul(OrElse(ToNumber(m.area), Num(400)), Rat(37, 400)))

RECURSIVE stageAreaM2Sum(_, _, _)
stageAreaM2Sum(stages, membranes, activeMembrane) ==
  IF stages = <<>> THEN Zero
  ELSE Add(stageAreaM2Sum(SubSeq(stages, 1, Len(stages) - 1), membranes, activeMembrane),
           Mul(stageElementCount(stages[Len(stages)]),
               membraneAreaM2(stageMembraneOf(membranes, stages[Len(stages)], activeMembrane))))

\* (flowM3h * 1000) / areaM2
lmhOf(flowM3h, areaM2) == Div(Mul(flowM3h, Num(1000)), areaM2)

\* the flux branch of lines 163-173 (also lines 360-369 with the stage's values)
fluxValueOf(flowUnit, flow, flowM3h, elements, areaFactor, areaM2, fluxConstants) ==
  IF flowUnit = "gpm"
    THEN Div(flow, Mul(Mul(elements, fluxConstants.gpm), areaFactor))
  ELSE IF flowUnit \in {"m3/h", "m3h"}
    THEN Div(flow, Mul(Mul(elements, fluxConstants.m3h), areaFactor))
  ELSE IF flowUnit \in {"m3/d", "m3d"}
    THEN Div(flow, Mul(Mul(elements, fluxConstants.m3d), areaFactor))
  ELSE IF isGpm(flowUnit) THEN Mul(lmhOf(flowM3h, areaM2), LMH_TO_GFD)
  ELSE lmhOf(flowM3h, areaM2)

\* Math.exp(0.7 * recFrac)
betaOf(recFrac) == MathExp(Mul(Rat(7, 10), recFrac))

\* Math.max(Math.min(x, 99.9), lo) / Math.min(Math.max(x, 80), 99.9)
Clamp(x, lo, hi) == MathMax(MathMin(x, hi), lo)

membraneRejectionOf(m) ==
  MathMin(MathMax(OrElse(ToNumber(m.rejection), Rat(997, 10)), Num(80)), Rat(999, 10))

\* the per-class rejections of lines 186-192
classRejections(m) ==
  [membraneRejection |-> membraneRejectionOf(m),
   defaultMono |-> Clamp(OrElse(ToNumber(m.monoRejection), Sub(membraneRejectionOf(m), Num(6))), Num(80), Rat(999, 10)),
   defaultDivalent |-> Clamp(OrElse(ToNumber(m.divalentRejection), membraneRejectionOf(m)), Num(80), Rat(999, 10)),
   silicaRejection |-> Clamp(OrElse(ToNumber(m.silicaRejection), Sub(membraneRejectionOf(m), One)), Num(80), Rat(999, 10)),
   boronRejection |-> Clamp(OrElse(ToNumber(m.boronRejection), Sub(membraneRejectionOf(m), Num(8))), Num(60), Rat(999, 10)),
   alkalinityRejection |-> Clamp(OrElse(ToNumber(m.alkalinityRejection), Sub(membraneRejectionOf(m), Rat(2, 10))), Num(80), Rat(999, 10)),
   co2Rejection |-> Clamp(OrElse(ToNumber(m.co2Rejection), Zero), Zero, Rat(999, 10))]

getIonRejection(m, rej, ionKey) ==
  IF ~IsNullish(Get(m.ionRejectionOverrides, ionKey))
    THEN ToNumber(Get(m.ionRejectionOverrides, ionKey))
  ELSE IF ionKey \in {"ca", "mg", "sr", "ba", "so4", "po4"} THEN rej.defaultDivalent
  ELSE IF ionKey \in {"na", "cl"} THEN rej.membraneRejection
  ELSE IF ionKey \in {"k", "no3", "f", "nh4"} THEN rej.defaultMono
  ELSE IF ionKey \in {"hco3", "co3"} THEN rej.alkalinityRejection
  ELSE IF ionKey = "sio2" THEN rej.silicaRejection
  ELSE IF ionKey = "b" THEN rej.boronRejection
  ELSE IF ionKey = "co2" THEN rej.co2Rejection
  ELSE rej.membraneRejection

\* feedConc * (1 - rejection)
permValOf(feedConc, rejection) == Mul(feedConc, Sub(One, rejection))

\* the balance divided by the feed flow instead of the concentrate flow
concValOverFeed(Qf, Qp, Qc, feedConc, permVal, cf) ==
  IF Gt(Qc, Zero)
  THEN Div(Sub(Mul(Qf, feedConc), Mul(Qp, permVal)), Qf)
  ELSE Mul(feedConc, cf)

\* Qc > 0 ? (Qf * feedConc - Qp * permVal) / Qc : feedConc * cf
concValOf(Qf, Qp, Qc, feedConc, permVal, cf) ==
  IF Gt(Qc, Zero)
  THEN Div(Sub(Mul(Qf, feedConc), Mul(Qp, permVal)), Qc)
  ELSE Mul(feedConc, cf)

\* Number(normalizedFeedIons[ion]) || 0
feedConcOf(entry) == OrElse(ToNumber(entry.conc), Zero)

\* lines 229-236: the unrounded values and the formatted permeate and concentrate entries
ionEntry(ionKey, feedConc, permVal, concVal) ==
  [ion |-> ionKey, feedConc |-> feedConc, permVal |-> permVal, concVal |-> concVal,
   permeate |-> ToFixed(permVal, IF ionKey \in {"na", "cl"} THEN 2 ELSE 3),
   concentrate |-> ToFixed(concVal, 3)]

\* the body of the forEach for one ion whose permeate concentration is permVal
ionBalanceOf(ionKey, feedConc, permVal, Qf, Qp, Qc, cf) ==
  ionEntry(ionKey, feedConc, permVal, concValOf(Qf, Qp, Qc, feedConc, permVal, cf))

\* one pass of the forEach of lines 215-237 over the normalized feed map
ionBalance(ions, m, rej, Qf, Qp, Qc, cf) ==
  [i \in 1..Len(ions) |->
     ionBalanceOf(ions[i].ion, feedConcOf(ions[i]),
                  permValOf(feedConcOf(ions[i]), Div(getIonRejection(m, rej, ions[i].ion), Num(100))),
                  Qf, Qp, Qc, cf)]

\* the pressure chain is carried to 0.01 (bar) and 0.0001 (g/L)
Q2(x) == ToFixed(x, 2)
Q4(x) == ToFixed(x, 4)

OSMOTIC_COEFF_BAR == Rat(7956, 10000)     \* 0.036 * 22.1
OSMOTIC_COEFF_PSI == Rat(11492, 1000)     \* 0.52 * 22.1

\* lines 246-262: the values the pressure chain starts from
pressureInputs(in, gpm, m, avgFluxLMH, feedTDS, concentrateTDS) ==
  [isGpm |-> gpm,
   avgFluxLMH |-> avgFluxLMH,
   tdsGL |-> Q4(Div(concentrateTDS, Num(1000))),
   tdsFeedGL |-> Q4(Div(feedTDS, Num(1000))),
   permPressInput |-> OrElse(ToNumber(Default(in.permeatePressure, Zero)), Zero),
   awGfdPsi |-> OrElse(ToNumber(m.aValue), Rat(15, 100)),
   systemDeltaPBar |-> One,
   feedPressure |-> Default(in.feedPressure, Null)]

\* lines 252-262: osmotic pressures, permeate back-pressure and permeability in bar
osmoticPressures(p) ==
  With(p, [piFeedBar |-> Mul(OSMOTIC_COEFF_BAR, p.tdsFeedGL),
           piConcBar |-> Mul(OSMOTIC_COEFF_BAR, p.tdsGL),
           permPressBar |-> IF p.isGpm THEN Div(p.permPressInput, BAR_TO_PSI) ELSE p.permPressInput,
           awLmhBar |-> Mul(p.awGfdPsi, Rat(2464, 100))])

\* (avgFluxLMH_calc / awLmhBar) + piAvgBar
systemTMPBarOf(p) ==
  Add(Q2(Div(Q2(p.avgFluxLMH), p.awLmhBar)), Q2(Div(Add(p.piFeedBar, p.piConcBar), Num(2))))

\* feedPressure != null alone: any supplied number counts as an override
manualFeedPressureAnySign(p) == ~IsNull(p.feedPressure)

\* feedPressure != null && Number(feedPressure) > 0
manualFeedPressure(p) == ~IsNull(p.feedPressure) /\ Gt(ToNumber(p.feedPressure), Zero)

\* isGpm ? totalFeedP / BAR_TO_PSI : totalFeedP
manualFeedPressureBar(p) ==
  IF p.isGpm THEN Div(Add(ToNumber(p.feedPressure), p.permPressInput), BAR_TO_PSI)
  ELSE Add(ToNumber(p.feedPressure), p.permPressInput)

\* lines 264-276
feedPressureBarOf(p) ==
  With(p, [feedPressureBar |->
             IF manualFeedPressure(p) THEN manualFeedPressureBar(p)
             ELSE Add(Add(systemTMPBarOf(p), Div(p.systemDeltaPBar, Num(2))), Q2(p.permPressBar))])

\* Math.max(feedPressureBar - systemDeltaPBar, 0)
concPressureBarOf(p) == MathMax(Sub(p.feedPressureBar, p.systemDeltaPBar), Zero)

\* lines 278-291
displayPressures(p) ==
  [feedPressureBar |-> p.feedPressureBar,
   concPressureBar |-> concPressureBarOf(p),
   systemDeltaPBar |-> p.systemDeltaPBar,
   displayFeedP |-> IF p.isGpm THEN Mul(p.feedPressureBar, BAR_TO_PSI) ELSE p.feedPressureBar,
   displayConcP |-> IF p.isGpm THEN Mul(concPressureBarOf(p), BAR_TO_PSI) ELSE concPressureBarOf(p),
   displayOsmotic |-> IF p.isGpm THEN Mul(OSMOTIC_COEFF_PSI, p.tdsGL) ELSE p.piConcBar]

\* lines 243-291: osmotic pressure, feed and concentrate pressure
pressuresOf(in, gpm, m, avgFluxLMH, feedTDS, concentrateTDS) ==
  displayPressures(feedPressureBarOf(osmoticPressures(
    pressureInputs(in, gpm, m, avgFluxLMH, feedTDS, concentrateTDS))))

\* (p - index * stageDeltaP) in the display unit; the psi product is distributed
\* over the difference, which leaves the value unchanged
stagePressureDisplay(gpm, pBar, steps, numStages, deltaP) ==
  IF gpm THEN Sub(Mul(pBar, BAR_TO_PSI), Mul(Mul(Rat(steps, numStages), deltaP), BAR_TO_PSI))
  ELSE Sub(pBar, Mul(Rat(steps, numStages), deltaP))

\* lines 353-369: the stage's average flux in the display unit
stageAvgFluxValueOf(flowUnit, gpm, stagePermeateFlow, stagePermeateFlowM3h, stageVessels, stageElements, stageAreaFactor, stageAreaM2) ==
  IF flowUnit = "gpm"
    THEN Div(stagePermeateFlow, Mul(Mul(stageVessels, stageElements), Mul(Rat(556, 10000), stageAreaFactor)))
  ELSE IF flowUnit \in {"m3/h", "m3h"}
    THEN Div(stagePermeateFlow, Mul(Mul(stageVessels, stageElements), Mul(Rat(372, 10000), stageAreaFactor)))
  ELSE IF flowUnit \in {"m3/d", "m3d"}
    THEN Div(stagePermeateFlow, Mul(Mul(stageVessels, stageElements), Mul(Rat(893, 1000), stageAreaFactor)))
  ELSE IF gpm THEN Div(lmhOf(stagePermeateFlowM3h, stageAreaM2), Rat(1699, 1000))
  ELSE lmhOf(stagePermeateFlowM3h, stageAreaM2)

\* (Number(stageMembrane.area) || 400) / 400
stageAreaFactorOr400(stageMembrane) == Div(OrElse(ToNumber(stageMembrane.area), Num(400)), Num(400))

\* Number(stageMembrane.area) / 400
stageAreaFactorOf(stageMembrane) == Div(ToNumber(stageMembrane.area), Num(400))

\* lines 337-347 and 359: what one iteration reads before its flux branch
stageInputs(stage, index, numStages, currentFeedFlowM3h, c) ==
  [index |-> index,
   numStages |-> numStages,
   currentFeedFlowM3h |-> currentFeedFlowM3h,
   stageVessels |-> OrElse(ToNumber(stage.vessels), Zero),
   stageElements |-> OrElse(ToNumber(stage.elementsPerVessel), Zero),
   stageMembrane |-> stageMembraneOf(c.membranes, stage, c.activeMembrane),
   stagePermeateFlowM3h |-> Div(c.totalFlowM3h, Num(numStages)),
   stagePermeateFlow |-> Div(ToNumber(c.totalFlow), Num(numStages))]

\* stageVessels * stageElements * (Number(stageMembrane.area) || 400) * 0.092903
stageAreaM2Of(s) ==
  Mul(Mul(Mul(s.stageVessels, s.stageElements), OrElse(ToNumber(s.stageMembrane.area), Num(400))),
      Rat(92903, 1000000))

\* lines 344-369: per-vessel flows, area and average flux of the stage
stageFluxOf(s, c) ==
  With(s, [perVesselFeedFlow |-> Div(Div(s.currentFeedFlowM3h, s.stageVessels), c.unitFactor),
           perVesselConcFlow |->
             Div(Div(Sub(s.currentFeedFlowM3h, s.stagePermeateFlowM3h), s.stageVessels), c.unitFactor),
           stageAreaM2 |-> stageAreaM2Of(s),
           stageAvgFluxValue |->
             stageAvgFluxValueOf(c.flowUnit, c.isGpm, s.stagePermeateFlow, s.stagePermeateFlowM3h,
                                 s.stageVessels, s.stageElements, stageAreaFactorOf(s.stageMembrane),
                                 stageAreaM2Of(s))])

\* stageAvgFluxValue * beta
stageHighestFluxOf(s, c) == Mul(s.stageAvgFluxValue, c.beta)

\* stageHighestFlux > 0 ? (stageAvgFluxValue / stageHighestFlux) : 0
stageHighestBetaOf(s, c) ==
  IF Gt(stageHighestFluxOf(s, c), Zero) THEN Div(s.stageAvgFluxValue, stageHighestFluxOf(s, c)) ELSE Zero

\* lines 340 and 371-391: the record pushed, none when the stage has no element
stagePushed(s, c) ==
  IF s.stageVessels = Zero \/ s.stageElements = Zero THEN <<>>
  ELSE << [index |-> s.index,
           vessels |-> s.stageVessels,
           elements |-> s.stageElements,
           membrane |-> s.stageMembrane,
           feedPressure |-> ToFixed(stagePressureDisplay(c.isGpm, c.pressures.feedPressureBar, s.index - 1,
                                                         s.numStages, c.pressures.systemDeltaPBar), 1),
           concPressure |-> ToFixed(stagePressureDisplay(c.isGpm, c.pressures.feedPressureBar, s.index,
                                                         s.numStages, c.pressures.systemDeltaPBar), 1),
           feedFlow |-> ToFixed(s.perVesselFeedFlow, 2),
           concFlow |-> ToFixed(s.perVesselConcFlow, 2),
           flux |-> ToFixed(s.stageAvgFluxValue, 1),
           highestFlux |-> ToFixed(stageHighestFluxOf(s, c), 1),
           highestBeta |-> ToFixed(stageHighestBetaOf(s, c), 2),
           unit |-> c.flowUnit,
           fluxUnit |-> c.fluxUnit,
           stageFeedFlowM3h |-> s.currentFeedFlowM3h,
           stagePermeateFlowM3h |-> s.stagePermeateFlowM3h,
           stagePermeateFlow |-> s.stagePermeateFlow,
           stageAreaM2 |-> s.stageAreaM2,
           stageAvgFluxValue |-> s.stageAvgFluxValue,
           stageHighestFlux |-> stageHighestFluxOf(s, c)] >>

\* one iteration of the stage loop (lines 336-394): <<>> when the stage is skipped
stageResultOf(stage, index, numStages, currentFeedFlowM3h, c) ==
  stagePushed(stageFluxOf(stageInputs(stage, index, numStages, currentFeedFlowM3h, c), c), c)

\* stageResults.push(...) and line 393, applied to the loop state `before`
stageAfter(before, res) ==
  IF res = <<>> THEN before
  ELSE [stageResults |-> before.stageResults \o res,
        currentFeedFlowM3h |-> Sub(before.currentFeedFlowM3h, res[1].stagePermeateFlowM3h)]

\* the iteration for activeStages[upto] run on the loop state `before`
stageIteration(before, activeStages, upto, c) ==
  stageAfter(before, stageResultOf(activeStages[upto], upto, Len(activeStages),
                                   before.currentFeedFlowM3h, c))

\* the forEach over activeStages: the stage records pushed and the feed flow left over
RECURSIVE stageLoop(_, _, _)
stageLoop(activeStages, upto, c) ==
  IF upto = 0 THEN [stageResults |-> <<>>, currentFeedFlowM3h |-> c.feedFlowTotalM3h]
  ELSE stageIteration(stageLoop(activeStages, upto - 1, c), activeStages, upto, c)

\* Math.max(...values)
RECURSIVE MathMaxSeq(_)
MathMaxSeq(s) == IF s = <<>> THEN NegInf ELSE MathMax(MathMaxSeq(SubSeq(s, 1, Len(s) - 1)), s[Len(s)])

FluxWarning == "Design limits exceeded: Flux too high"
VesselFlowWarning == "Design limits exceeded: Feed flow per vessel too high"
ConcPressureWarning == "Design limits exceeded: Concentrate pressure is negative"

\* the vessel ceiling read as 45 m3/h instead of 4.5
designWarningsLooseVessel(systemHighestFlux, gpm, feedFlowPerVesselM3h, displayConcP) ==
  (IF Gt(systemHighestFlux, Num(20)) /\ gpm THEN <<FluxWarning>> ELSE <<>>) \o
  (IF Gt(systemHighestFlux, Num(34)) /\ ~gpm THEN <<FluxWarning>> ELSE <<>>) \o
  (IF Gt(feedFlowPerVesselM3h, Num(45)) THEN <<VesselFlowWarning>> ELSE <<>>) \o
  (IF Lt(displayConcP, Zero) THEN <<ConcPressureWarning>> ELSE <<>>)

\* lines 398-402
designWarningsOf(systemHighestFlux, gpm, feedFlowPerVesselM3h, displayConcP) ==
  (IF Gt(systemHighestFlux, Num(20)) /\ gpm THEN <<FluxWarning>> ELSE <<>>) \o
  (IF Gt(systemHighestFlux, Num(34)) /\ ~gpm THEN <<FluxWarning>> ELSE <<>>) \o
  (IF Gt(feedFlowPerVesselM3h, Rat(45, 10)) THEN <<VesselFlowWarning>> ELSE <<>>) \o
  (IF Lt(displayConcP, Zero) THEN <<ConcPressureWarning>> ELSE <<>>)

\* membranes.find(...) on a membranes value that is null raises a TypeError (line 121)
calculateSystemThrows(in) == in.membranes.kind = "null"

\* stages[0]?.membraneModel || membraneModel
activeMembraneIdOf(activeStages, membraneModel) ==
  IF activeStages # <<>> /\ activeStages[1].membraneModel # ""
  THEN activeStages[1].membraneModel ELSE membraneModel

\* stageResults.length > 0 ? Math.max(...stageResults.map(s => Number(s.highestFlux))) : highestFlux
systemHighestFluxOf(stageResults, highestFlux) ==
  IF stageResults # <<>>
  THEN MathMaxSeq([i \in 1..Len(stageResults) |-> stageResults[i].highestFlux])
  ELSE highestFlux

\* lines 69-121: the locals computed from the arguments alone
inputLocals(in, ex) ==
  [totalFlow |-> in.totalFlow,
   permeatePressure |-> in.permeatePressure,
   feedPressure |-> in.feedPressure,
   flowUnit |-> flowUnitOf(in),
   isGpm |-> isGpm(flowUnitOf(in)),
   fluxUnit |-> IF isGpm(flowUnitOf(in)) THEN "GFD" ELSE "LMH",
   fluxConstants |-> ex.FLUX_CONSTANTS,
   recoveryPct |-> recoveryPct(in.recovery),
   recFrac |-> Div(recoveryPct(in.recovery), Num(100)),
   feedPhValue |-> feedPhValue(in.feedPH),
   normalizedFeedIons |-> normalizedFeedIons(in.feedIons, feedPhValue(in.feedPH)),
   unitFactor |-> unitFactorOf(ex.FLOW_TO_M3H, flowUnitOf(in)),
   activeStages |-> activeStagesOf(in.stages),
   vessels |-> Default(in.vessels, Zero),
   elementsPerVessel |-> Default(in.elementsPerVessel, Zero),
   firstStageVessels |-> stageVesselsOr(activeStagesOf(in.stages), 1, Default(in.vessels, Zero)),
   lastStageVessels |-> stageVesselsOr(activeStagesOf(in.stages), Len(activeStagesOf(in.stages)),
                                       Default(in.vessels, Zero)),
   membranes |-> in.membranes.items,
   activeMembrane |-> activeMembraneOf(in.membranes.items,
                                       activeMembraneIdOf(activeStagesOf(in.stages), in.membraneModel))]

\* lines 107, 122-132, 182-192, 211 and 241
flowLocals(c) ==
  With(c, [totalFlowM3h |-> Mul(ToNumber(c.totalFlow), c.unitFactor),
           areaPerElement |-> OrElse(ToNumber(c.activeMembrane.area), Num(400)),
           totalElements |-> IF c.activeStages # <<>> THEN stageElementsSum(c.activeStages)
                             ELSE Mul(OrElse(ToNumber(c.vessels), Zero),
                                      OrElse(ToNumber(c.elementsPerVessel), Zero)),
           beta |-> betaOf(c.recFrac),
           cf |-> IF Lt(c.recFrac, One) THEN Div(One, Sub(One, c.recFrac)) ELSE One,
           feedTDS |-> SumSeq([i \in 1..Len(c.normalizedFeedIons) |-> feedConcOf(c.normalizedFeedIons[i])])])

\* lines 110 and 133-146
areaLocals(c) ==
  With(c, [feedFlowTotalM3h |-> feedFlowTotal(c.totalFlowM3h, c.recFrac),
           totalAreaSqFt |-> IF c.activeStages # <<>>
                             THEN stageAreaSqFtSum(c.activeStages, c.membranes, c.activeMembrane, c.areaPerElement)
                             ELSE Mul(c.totalElements, c.areaPerElement),
           totalAreaM2 |-> IF c.activeStages # <<>>
                           THEN stageAreaM2Sum(c.activeStages, c.membranes, c.activeMembrane)
                           ELSE Mul(c.totalElements,
                                    OrElse(ToNumber(c.activeMembrane.areaM2), Mul(c.areaPerElement, Rat(37, 400))))])

\* lines 111, 118 and 148-173
fluxLocals(c) ==
  With(c, [concentrateFlowTotalM3h |-> concentrateFlowTotal(c.feedFlowTotalM3h, c.totalFlowM3h),
           feedFlowPerVesselM3h |-> Div(c.feedFlowTotalM3h, c.firstStageVessels),
           displayFlux |-> fluxValueOf(c.flowUnit, ToNumber(c.totalFlow), c.totalFlowM3h,
                                       MathMax(c.totalElements, One), Div(c.areaPerElement, Num(400)),
                                       MathMax(c.totalAreaM2, One), c.fluxConstants)])

\* displayFlux * beta
highestFluxOf(c) == Mul(c.displayFlux, c.beta)

\* lines 178-184 and 215-237
ionLocals(c) ==
  With(c, [avgFluxLMH_calc |-> IF c.isGpm THEN Mul(c.displayFlux, Rat(1699, 1000)) ELSE c.displayFlux,
           avgFluxGFD_calc |-> IF c.isGpm THEN c.displayFlux ELSE Div(c.displayFlux, Rat(1699, 1000)),
           highestFlux |-> highestFluxOf(c),
           highestBeta |-> IF Gt(highestFluxOf(c), Zero) THEN Div(c.displayFlux, highestFluxOf(c)) ELSE Zero,
           balance |-> ionBalance(c.normalizedFeedIons, c.activeMembrane, classRejections(c.activeMembrane),
                                  c.feedFlowTotalM3h, c.totalFlowM3h, c.concentrateFlowTotalM3h, c.cf)])

\* lines 239-240
tdsLocals(c) ==
  With(c, [permeateTDS |-> SumSeq([i \in 1..Len(c.balance) |-> c.balance[i].permVal]),
           concentrateTDS |-> SumSeq([i \in 1..Len(c.balance) |-> c.balance[i].concVal])])

\* lines 243-291
pressureLocals(c) ==
  With(c, [pressures |-> pressuresOf(c, c.isGpm, c.activeMembrane, c.avgFluxLMH_calc,
                                     c.feedTDS, c.concentrateTDS)])

\* lines 333-394
stageLocals(c) ==
  With(c, [loop |-> stageLoop(c.activeStages, Len(c.activeStages), c)])

\* lines 396-402
warningLocals(c) ==
  With(c, [stageResults |-> c.loop.stageResults,
           currentFeedFlowM3h |-> c.loop.currentFeedFlowM3h,
           systemHighestFlux |-> systemHighestFluxOf(c.loop.stageResults, c.highestFlux),
           designWarnings |-> designWarningsOf(systemHighestFluxOf(c.loop.stageResults, c.highestFlux),
                                               c.isGpm, c.feedFlowPerVesselM3h, c.pressures.displayConcP)])

\* the local variables of one run of calculateSystem, up to the return statement
calculateSystemLocals(in, ex) ==
  warningLocals(stageLocals(pressureLocals(tdsLocals(ionLocals(fluxLocals(areaLocals(flowLocals(
    inputLocals(in, ex)))))))))

\* Number(concentrateIons[key]) || 0 on the formatted concentrate map
concOf(balance, key) ==
  IF \E i \in 1..Len(balance) : balance[i].ion = key
  THEN OrElse(balance[CHOOSE i \in 1..Len(balance) : balance[i].ion = key].concentrate, Zero)
  ELSE Zero

\* lines 303-318
concentrateSaturationOf(balance) ==
  [caSo4 |-> ToFixed(Div(Mul(concOf(balance, "ca"), concOf(balance, "so4")), Num(1000)), 1),
   baSo4 |-> ToFixed(Div(Mul(concOf(balance, "ba"), concOf(balance, "so4")), Num(50)), 1),
   srSo4 |-> ToFixed(Div(Mul(concOf(balance, "sr"), concOf(balance, "so4")), Num(2000)), 1),
   sio2 |-> ToFixed(Mul(Div(concOf(balance, "sio2"), Num(120)), Num(100)), 1),
   ca3po42 |-> ToFixed(Div(Mul(concOf(balance, "ca"), concOf(balance, "po4")), Num(100)), 2),
   caF2 |-> ToFixed(Div(Mul(concOf(balance, "ca"), concOf(balance, "f")), Num(500)), 1)]

\* the object returned at lines 404-432 (the log10-derived figures lsi, ccpp and
\* concentrate pH are not carried)
reportOf(L) ==
  [results |->
     [avgFlux |-> ToFixed(L.displayFlux, IF L.isGpm THEN 3 ELSE 1),
      avgFluxGFD |-> ToFixed(L.avgFluxGFD_calc, 3),
      avgFluxLMH |-> ToFixed(L.avgFluxLMH_calc, 1),
      fluxUnit |-> L.fluxUnit,
      highestFlux |-> ToFixed(L.highestFlux, 1),
      highestBeta |-> ToFixed(L.highestBeta, 3),
      feedFlowVessel |-> ToFixed(Div(L.feedFlowPerVesselM3h, L.unitFactor), 2),
      concFlowVessel |-> ToFixed(Div(Div(L.concentrateFlowTotalM3h, L.lastStageVessels), L.unitFactor), 2),
      feedPressure |-> ToFixed(L.pressures.displayFeedP, 1),
      concPressure |-> ToFixed(L.pressures.displayConcP, 1),
      osmoticPressure |-> ToFixed(L.pressures.displayOsmotic, 1),
      pressureUnit |-> IF L.isGpm THEN "psi" ELSE "bar",
      permTDS |-> ToFixed(L.permeateTDS, 2),
      concTDS |-> ToFixed(L.concentrateTDS, 2),
      permPH |-> ToFixed(MathMin(MathMax(Sub(L.feedPhValue, Rat(169, 100)), Zero), Num(14)), 1),
      flowUnit |-> L.flowUnit],
   permeateIons |-> [i \in 1..Len(L.balance) |-> [ion |-> L.balance[i].ion, conc |-> L.balance[i].permeate]],
   concentrateIons |-> [i \in 1..Len(L.balance) |-> [ion |-> L.balance[i].ion, conc |-> L.balance[i].concentrate]],
   concentrateSaturation |-> concentrateSaturationOf(L.balance),
   concentrateParameters |->
     [osmoticPressure |-> ToFixed(L.pressures.displayOsmotic, 1),
      tds |-> ToFixed(Div(L.feedTDS, Sub(One, L.recFrac)), 1)],
   permeateParameters |->
     [ph |-> ToFixed(MathMin(MathMax(Sub(L.feedPhValue, Rat(169, 100)), Zero), Num(14)), 1),
      tds |-> ToFixed(Mul(L.feedTDS, Sub(One, Div(membraneRejectionOf(L.activeMembrane), Num(100)))), 1)],
   stageResults |->
     [i \in 1..Len(L.stageResults) |->
        [index |-> L.stageResults[i].index, vessels |-> L.stageResults[i].vessels,
         feedPressure |-> L.stageResults[i].feedPressure,
         concPressure |-> L.stageResults[i].concPressure,
         feedFlow |-> L.stageResults[i].feedFlow, concFlow |-> L.stageResults[i].concFlow,
         flux |-> L.stageResults[i].flux, highestFlux |-> L.stageResults[i].highestFlux,
         highestBeta |-> L.stageResults[i].highestBeta,
         unit |-> L.stageResults[i].unit, fluxUnit |-> L.stageResults[i].fluxUnit]],
   designWarnings |-> L.designWarnings]

\* the locals at the return statement together with the object returned
returned(L) == <<L, reportOf(L)>>

\* calculateSystem(inputs): <<locals, report>> on return, <<>> when it throws
calculateSystem(in, ex) ==
  IF calculateSystemThrows(in) THEN <<>> ELSE returned(calculateSystemLocals(in, ex))

(***************************************************************************)
(* calculateIonPassage (calculatorService.js lines 435-481)                 *)
(***************************************************************************)
\* ion.toLowerCase() on the keys in use
ToLowerCase(key) ==
  CASE key = "CO2" -> "co2" [] key = "NH4" -> "nh4" [] key = "Ca" -> "ca"
    [] key = "Na" -> "na" [] key = "Cl" -> "cl" [] key = "HCO3" -> "hco3"
    [] OTHER -> key

\* rejections[ion] != null ? rejections[ion] : 0.99
passageRejection(ion) ==
  CASE ion = "Ca" -> Rat(994, 1000) [] ion = "Mg" -> Rat(994, 1000)
    [] ion = "Na" -> Rat(990, 1000) [] ion = "K" -> Rat(985, 1000)
    [] ion = "Cl" -> Rat(988, 1000) [] ion = "SO4" -> Rat(997, 1000)
    [] ion = "HCO3" -> Rat(980, 1000) [] ion = "NO3" -> Rat(920, 1000)
    [] ion = "CO2" -> Zero
    [] OTHER -> Rat(99, 100)

\* Math.min(Math.max((feedPhValue - 7.2) / (11.5 - 7.2), 0), 1)
nh3FractionOf(ph) == MathMin(MathMax(Div(Sub(ph, Rat(72, 10)), Rat(43, 10)), Zero), One)

\* rej, after the ammonium correction of lines 458-462
passageRejectionAt(ion, ph) ==
  IF ToLowerCase(ion) = "nh4" THEN Mul(passageRejection(ion), Sub(One, nh3FractionOf(ph)))
  ELSE passageRejection(ion)

\* the body of the forEach (lines 450-469) for one entry of the feed map
passageOf(entry, ph, beta, recFrac) ==
  IF ToLowerCase(entry.ion) = "co2"
  THEN [ion |-> entry.ion, permeate |-> feedConcOf(entry), concentrate |-> feedConcOf(entry)]
  ELSE [ion |-> entry.ion,
        permeate |-> Mul(feedConcOf(entry), Mul(Sub(One, passageRejectionAt(entry.ion, ph)), beta)),
        concentrate |-> IF Gt(recFrac, Zero) /\ Lt(recFrac, One)
                        THEN Div(feedConcOf(entry), Sub(One, recFrac)) ELSE feedConcOf(entry)]

\* lines 478-480, with the recovery percentage in use
passageReport(pct, beta, rows, vessels) ==
  [recoveryPct |-> pct,
   permeateIons |-> [i \in 1..Len(rows) |-> [ion |-> rows[i].ion, conc |-> rows[i].permeate]],
   concentrateIons |-> [i \in 1..Len(rows) |-> [ion |-> rows[i].ion, conc |-> rows[i].concentrate]],
   permeateTDS |-> ToFixed(SumSeq([i \in 1..Len(rows) |-> rows[i].permeate]), 2),
   beta |-> ToFixed(beta, 2),
   vessels |-> vessels]

\* the run at recovery percentage pct and feed pH ph
passageAt(ions, pct, ph, vessels) ==
  passageReport(pct, betaOf(Div(pct, Num(100))),
                [i \in 1..Len(ions) |-> passageOf(ions[i], ph, betaOf(Div(pct, Num(100))), Div(pct, Num(100)))],
                vessels)

calculateIonPassage(feedIons, systemData) ==
  passageAt(entriesOf(feedIons), recoveryPct(systemData.recovery),
            OrElse(ToNumber(systemData.feedPH), Num(7)), systemData.vessels)

(***************************************************************************)
(* runHydraulicBalance (calculatorService.js lines 483-523)                 *)
(***************************************************************************)
\* Math.min(Math.max(Number(config.recovery) || 15, 1), 99)
balanceRecoveryPercent(recovery) ==
  MathMin(MathMax(OrElse(ToNumber(recovery), Num(15)), One), Num(99))

\* lines 484-491: the values read from config and membrane
balanceInputs(config, membrane, ex) ==
  [permeateInput |-> OrElse(ToNumber(config.permeateFlow), Zero),
   unit |-> flowUnitOf(config),
   unitFactor |-> IF flowUnitOf(config) \in DOMAIN ex.FLOW_TO_M3H
                  THEN ex.FLOW_TO_M3H[flowUnitOf(config)] ELSE One,
   recoveryPercent |-> balanceRecoveryPercent(config.recovery),
   recovery |-> Div(balanceRecoveryPercent(config.recovery), Num(100)),
   vessels |-> OrElse(ToNumber(config.stage1Vessels), One),
   elementsPerVessel |-> OrElse(ToNumber(config.elementsPerVessel), Num(7)),
   elementArea_ft2 |-> IF membrane = <<>> THEN Num(400)
                       ELSE OrElse(ToNumber(membrane[1].area), Num(400))]

\* lines 492-501
balanceFlows(b) ==
  With(b, [elementArea_m2 |-> Mul(b.elementArea_ft2, Rat(92903, 1000000)),
           permeate_m3h |-> Mul(b.permeateInput, b.unitFactor),
           feed_m3h |-> Div(Mul(b.permeateInput, b.unitFactor), b.recovery),
           totalElements |-> Mul(b.vessels, b.elementsPerVessel),
           areaFactor |-> Div(b.elementArea_ft2, Num(400)),
           totalArea_ft2 |-> Mul(Mul(b.vessels, b.elementsPerVessel), b.elementArea_ft2)])

\* lines 496 and 502-514
balanceFlux(b) ==
  With(b, [concentrate_m3h |-> Sub(b.feed_m3h, b.permeate_m3h),
           totalArea_m2 |-> Mul(b.totalElements, b.elementArea_m2),
           calcFlux |->
             IF ~Gt(b.totalElements, Zero) THEN Zero
             ELSE IF b.unit = "gpm"
               THEN Div(b.permeateInput, Mul(Mul(b.totalElements, Rat(556, 10000)), b.areaFactor))
             ELSE IF b.unit = "m3/h"
               THEN Div(b.permeateInput, Mul(Mul(b.totalElements, Rat(372, 10000)), b.areaFactor))
             ELSE IF b.unit = "m3/d"
               THEN Div(b.permeateInput, Mul(Mul(b.totalElements, Rat(893, 1000)), b.areaFactor))
             ELSE Div(Mul(b.permeate_m3h, Num(1000)), Mul(b.totalElements, b.elementArea_m2))])

\* the object returned at lines 516-522, with the recovery percentage in use
balanceReport(b) ==
  [recoveryPercent |-> b.recoveryPercent,
   feedFlow |-> ToFixed(Div(b.feed_m3h, b.unitFactor), 2),
   concentrateFlow |-> ToFixed(Div(b.concentrate_m3h, b.unitFactor), 2),
   permeateFlow |-> ToFixed(b.permeateInput, 2),
   totalElements |-> b.totalElements,
   totalArea_ft2 |-> ToFixed(b.totalArea_ft2, 2),
   totalArea_m2 |-> ToFixed(b.totalArea_m2, 2),
   elementArea_ft2 |-> b.elementArea_ft2,
   elementArea_m2 |-> ToFixed(b.elementArea_m2, 2),
   calcFlux |-> ToFixed(b.calcFlux, 1),
   unit |-> b.unit,
   fluxUnit |-> IF b.unit = "gpm" THEN "GFD" ELSE "LMH"]

\* membrane is <<m>> or <<>> (undefined)
runHydraulicBalance(config, membrane, ex) ==
  balanceReport(balanceFlux(balanceFlows(balanceInputs(config, membrane, ex))))

(***************************************************************************)
(* The earlier revision of the engine (src/unnamed/part_000):               *)
(* calculateSystem with a concentration-factor ion model and a fixed net    *)
(* driving pressure.  Locals that reach no output (TCF, aEffective,         *)
(* spFactor, stagePressureDropBar) and the log10-derived figures are not    *)
(* carried.                                                                 *)
(***************************************************************************)
FLOW_TO_M3H_part000 ==
  ("gpm" :> Rat(2271247, 10000000)) @@ ("m3h" :> One) @@ ("m3d" :> Rat(1, 24))

M3H_TO_GPM == Rat(4402867, 1000000)

\* Number(v < 0.001 ? '<0.001' : v.toFixed(3))
speciesValue_part000(v) == IF Lt(v, Rat(1, 1000)) THEN NaN ELSE ToFixed(v, 3)

\* dissolved CO2 derived from bicarbonate, stored through the '<0.001' formatting
withCo2_part000(copy, ph) ==
  IF ionValue(copy, "co2") = Zero /\ Gt(ionValue(copy, "hco3"), Zero)
  THEN Put(copy, "co2", speciesValue_part000(Mul(ionValue(copy, "hco3"), MathPow10(Sub(Rat(635, 100), ph)))))
  ELSE copy

\* carbonate derived from bicarbonate at pH 8.2 and above, stored the same way
withCo3_part000(copy, map, ph) ==
  IF ionValue(copy, "co3") = Zero /\ Gt(ionValue(copy, "hco3"), Zero) /\ Ge(ph, Rat(82, 10))
  THEN Put(map, "co3", speciesValue_part000(Mul(ionValue(copy, "hco3"), MathPow10(Sub(ph, Rat(1033, 100))))))
  ELSE map

normalizedFeedIons_part000(feedIons, ph) ==
  withCo3_part000(entriesOf(feedIons), withCo2_part000(entriesOf(feedIons), ph), ph)

\* feedFlowTotalM3h - totalFlowM3h, without a floor
concentrateFlowTotal_part000(feedFlowTotalM3h, totalFlowM3h) ==
  Sub(feedFlowTotalM3h, totalFlowM3h)

\* areaSqFt * 0.09290304
areaM2Of_part000(areaSqFt) == Mul(areaSqFt, Rat(9290304, 100000000))

\* gpm -> GFD over the area in ft2, every other unit -> LMH over the area in m2
fluxValueOf_part000(flowUnit, flowM3h, areaSqFt) ==
  IF flowUnit = "gpm"
  THEN (IF Gt(areaSqFt, Zero)
        THEN Div(Mul(Mul(flowM3h, M3H_TO_GPM), Num(1440)), areaSqFt) ELSE Zero)
  ELSE (IF Gt(areaM2Of_part000(areaSqFt), Zero)
        THEN Div(Mul(flowM3h, Num(1000)), areaM2Of_part000(areaSqFt)) ELSE Zero)

\* sodium and chloride fall in the monovalent class here
getIonRejection_part000(m, rej, ionKey) ==
  IF ~IsNullish(Get(m.ionRejectionOverrides, ionKey))
    THEN ToNumber(Get(m.ionRejectionOverrides, ionKey))
  ELSE IF ionKey \in {"ca", "mg", "sr", "ba", "so4", "po4"} THEN rej.defaultDivalent
  ELSE IF ionKey \in {"na", "k", "cl", "no3", "f", "nh4"} THEN rej.defaultMono
  ELSE IF ionKey \in {"hco3", "co3"} THEN rej.alkalinityRejection
  ELSE IF ionKey = "sio2" THEN rej.silicaRejection
  ELSE IF ionKey = "b" THEN rej.boronRejection
  ELSE IF ionKey = "co2" THEN rej.co2Rejection
  ELSE rej.membraneRejection

\* feedConc * (1 - rejection) * (feedTDS / concentrateTDS)
permValOf_part000(feedConc, rejection, feedTDS, concentrateTDS) ==
  Mul(Mul(feedConc, Sub(One, rejection)), Div(feedTDS, concentrateTDS))

\* recFrac > 0 && recFrac < 1 ? feedConc / (1 - recFrac) : feedConc
concValOf_part000(feedConc, recFrac) ==
  IF Gt(recFrac, Zero) /\ Lt(recFrac, One) THEN Div(feedConc, Sub(One, recFrac)) ELSE feedConc

\* the forEach of lines 213-229
ionBalance_part000(ions, m, rej, recFrac, feedTDS, concentrateTDS) ==
  [i \in 1..Len(ions) |->
     ionEntry(ions[i].ion, feedConcOf(ions[i]),
              permValOf_part000(feedConcOf(ions[i]),
                                Div(getIonRejection_part000(m, rej, ions[i].ion), Num(100)),
                                feedTDS, concentrateTDS),
              concValOf_part000(feedConcOf(ions[i]), recFrac))]

\* systemTMP + (systemDeltaP / 2), with systemTMP = 125 + (piFeed + piConc) / 2
calcSystemFeedP_part000(feedTDS, concentrateTDS) ==
  Add(Add(Num(125), Div(Add(Mul(Rat(115, 10000), feedTDS), Mul(Rat(115, 10000), concentrateTDS)), Num(2))),
      Div(Num(15), Num(2)))

\* lines 191-207: osmotic pressure 0.0115 * TDS, net driving pressure 125 psi, drop 15 psi
pressuresOf_part000(feedTDS, concentrateTDS) ==
  [osmoticPressureFeed |-> Mul(Rat(115, 10000), feedTDS),
   osmoticPressure |-> Mul(Rat(115, 10000), concentrateTDS),
   systemDeltaP |-> Num(15),
   calcSystemFeedP |-> calcSystemFeedP_part000(feedTDS, concentrateTDS),
   calcSystemConcP |-> Sub(calcSystemFeedP_part000(feedTDS, concentrateTDS), Num(15))]

\* (psi / BAR_TO_PSI) * BAR_TO_PSI
throughBar_part000(psi) == Mul(Div(psi, BAR_TO_PSI), BAR_TO_PSI)

\* lines 293-311: the stage's counts, permeate flow and average flux
stageInputs_part000(stage, index, numStages, currentFeedFlowM3h, c) ==
  [index |-> index,
   currentFeedFlowM3h |-> currentFeedFlowM3h,
   stageVessels |-> OrElse(ToNumber(stage.vessels), Zero),
   stageElements |-> OrElse(ToNumber(stage.elementsPerVessel), Zero),
   stagePermeateFlowM3h |-> IF index = 1 THEN c.totalFlowM3h ELSE Mul(currentFeedFlowM3h, c.recFrac),
   stageDeltaP |-> Div(c.pressures.systemDeltaP, Num(numStages)),
   stageAreaSqFt |-> Mul(Mul(OrElse(ToNumber(stage.vessels), Zero), OrElse(ToNumber(stage.elementsPerVessel), Zero)),
                         ToNumber(stageMembraneOf(c.membranes, stage, c.activeMembrane).area))]

\* lines 313-325
stageFluxOf_part000(s, c) ==
  With(s, [stageAvgFlux |-> fluxValueOf_part000(c.flowUnit, s.stagePermeateFlowM3h, s.stageAreaSqFt),
           stageFeedPressurePsi |-> Sub(c.pressures.calcSystemFeedP, Mul(Num(s.index - 1), s.stageDeltaP))])

\* lines 296 and 331-343: the record pushed, none when the stage has no element
stagePushed_part000(s, c) ==
  IF s.stageVessels = Zero \/ s.stageElements = Zero THEN <<>>
  ELSE << [index |-> s.index,
           vessels |-> s.stageVessels,
           feedPressurePsi |-> ToFixed(throughBar_part000(s.stageFeedPressurePsi), 1),
           concPressurePsi |-> ToFixed(throughBar_part000(Sub(s.stageFeedPressurePsi, s.stageDeltaP)), 1),
           feedFlow |-> ToFixed(Div(Div(c.feedFlowTotalM3h, c.firstStageVessels), c.unitFactor), 2),
           concFlow |-> ToFixed(Div(Div(c.concentrateFlowTotalM3h, c.lastStageVessels), c.unitFactor), 2),
           flux |-> ToFixed(s.stageAvgFlux, 1),
           highestFlux |-> ToFixed(Mul(s.stageAvgFlux, Rat(113, 100)), 1),
           highestBeta |-> ToFixed(Div(Mul(s.stageAvgFlux, Rat(113, 100)), s.stageAvgFlux), 2),
           unit |-> c.flowUnit,
           fluxUnit |-> IF c.flowUnit = "gpm" THEN "GFD" ELSE "LMH",
           stageFeedFlowM3h |-> s.currentFeedFlowM3h,
           stagePermeateFlowM3h |-> s.stagePermeateFlowM3h] >>

\* one iteration of the stage loop (lines 292-345): <<>> when the stage is skipped
stageResultOf_part000(stage, index, numStages, currentFeedFlowM3h, c) ==
  stagePushed_part000(stageFluxOf_part000(
    stageInputs_part000(stage, index, numStages, currentFeedFlowM3h, c), c), c)

stageIteration_part000(before, activeStages, upto, c) ==
  stageAfter(before, stageResultOf_part000(activeStages[upto], upto, Len(activeStages),
                                           before.currentFeedFlowM3h, c))

RECURSIVE stageLoop_part000(_, _, _)
stageLoop_part000(activeStages, upto, c) ==
  IF upto = 0 THEN [stageResults |-> <<>>, currentFeedFlowM3h |-> c.feedFlowTotalM3h]
  ELSE stageIteration_part000(stageLoop_part000(activeStages, upto - 1, c), activeStages, upto, c)

OsmoticWarning == "Design limits exceeded: Osmotic pressure invalid"

\* lines 356-365
designWarningsOf_part000(systemHighestFlux, flowUnit, feedFlowPerVesselM3h, systemConcPressurePsi, osmoticPressureFeed) ==
  (IF Gt(systemHighestFlux, Num(20)) /\ flowUnit = "gpm" THEN <<FluxWarning>> ELSE <<>>) \o
  (IF Gt(systemHighestFlux, Num(34)) /\ flowUnit # "gpm" THEN <<FluxWarning>> ELSE <<>>) \o
  (IF Gt(feedFlowPerVesselM3h, Rat(45, 10)) THEN <<VesselFlowWarning>> ELSE <<>>) \o
  (IF Lt(systemConcPressurePsi, Zero) THEN <<ConcPressureWarning>> ELSE <<>>) \o
  (IF ~IsFinite(osmoticPressureFeed) \/ Lt(osmoticPressureFeed, Zero) THEN <<OsmoticWarning>> ELSE <<>>)

\* lines 55-114: the locals computed from the arguments alone
inputLocals_part000(in) ==
  [flowUnit |-> flowUnitOf(in),
   recoveryPct |-> recoveryPct(in.recovery),
   recFrac |-> Div(recoveryPct(in.recovery), Num(100)),
   feedPhValue |-> feedPhValue(in.feedPH),
   normalizedFeedIons |-> normalizedFeedIons_part000(in.feedIons, feedPhValue(in.feedPH)),
   unitFactor |-> unitFactorOf(FLOW_TO_M3H_part000, flowUnitOf(in)),
   totalFlowM3h |-> Mul(ToNumber(in.totalFlow), unitFactorOf(FLOW_TO_M3H_part000, flowUnitOf(in))),
   activeStages |-> activeStagesOf(in.stages),
   vessels |-> Default(in.vessels, Zero),
   elementsPerVessel |-> Default(in.elementsPerVessel, Zero),
   firstStageVessels |-> stageVesselsOr(activeStagesOf(in.stages), 1, Default(in.vessels, Zero)),
   lastStageVessels |-> stageVesselsOr(activeStagesOf(in.stages), Len(activeStagesOf(in.stages)),
                                       Default(in.vessels, Zero)),
   membranes |-> in.membranes.items,
   activeMembrane |-> activeMembraneOf(in.membranes.items,
                                       activeMembraneIdOf(activeStagesOf(in.stages), in.membraneModel))]

\* lines 101-102, 115-124 and 187
flowLocals_part000(c) ==
  With(c, [feedFlowTotalM3h |-> feedFlowTotal(c.totalFlowM3h, c.recFrac),
           areaPerElement |-> OrElse(ToNumber(c.activeMembrane.area), Num(400)),
           totalElements |-> IF c.activeStages # <<>> THEN stageElementsSum(c.activeStages)
                             ELSE Mul(OrElse(ToNumber(c.vessels), Zero),
                                      OrElse(ToNumber(c.elementsPerVessel), Zero)),
           feedTDS |-> SumSeq([i \in 1..Len(c.normalizedFeedIons) |-> feedConcOf(c.normalizedFeedIons[i])])])

\* lines 102-110, 125-136 and 188
areaLocals_part000(c) ==
  With(c, [concentrateFlowTotalM3h |-> concentrateFlowTotal_part000(c.feedFlowTotalM3h, c.totalFlowM3h),
           feedFlowPerVesselM3h |-> Div(c.feedFlowTotalM3h, c.firstStageVessels),
           totalAreaSqFt |-> IF c.activeStages # <<>>
                             THEN stageAreaSqFtSum(c.activeStages, c.membranes, c.activeMembrane, c.areaPerElement)
                             ELSE Mul(c.totalElements, c.areaPerElement),
           concentrateTDS |-> IF Lt(c.recFrac, One) THEN Div(c.feedTDS, Sub(One, c.recFrac)) ELSE c.feedTDS])

\* totalAreaSqFt > 0 ? totalAreaSqFt : (totalElements * areaPerElement)
effectiveAreaSqFtOf(c) ==
  IF Gt(c.totalAreaSqFt, Zero) THEN c.totalAreaSqFt ELSE Mul(c.totalElements, c.areaPerElement)

\* lines 111, 138-151 and 191-207
fluxLocals_part000(c) ==
  With(c, [concFlowPerVesselM3h |-> Div(c.concentrateFlowTotalM3h, c.lastStageVessels),
           avgFlux |-> fluxValueOf_part000(c.flowUnit, c.totalFlowM3h, effectiveAreaSqFtOf(c)),
           pressures |-> pressuresOf_part000(c.feedTDS, c.concentrateTDS)])

\* lines 153-159 and 213-229
ionLocals_part000(c) ==
  With(c, [highestFlux |-> Mul(c.avgFlux, Rat(115, 100)),
           beta |-> IF Gt(c.avgFlux, Zero) THEN Div(Mul(c.avgFlux, Rat(115, 100)), c.avgFlux) ELSE One,
           balance |-> ionBalance_part000(c.normalizedFeedIons, c.activeMembrane,
                                          classRejections(c.activeMembrane), c.recFrac,
                                          c.feedTDS, c.concentrateTDS)])

\* lines 232 and 288-351
stageLocals_part000(c) ==
  With(c, [permeateTDS |-> SumSeq([i \in 1..Len(c.balance) |-> c.balance[i].permeate]),
           loop |-> stageLoop_part000(c.activeStages, Len(c.activeStages), c)])

\* lines 353-357
systemLocals_part000(c) ==
  With(c, [stageResults |-> c.loop.stageResults,
           currentFeedFlowM3h |-> c.loop.currentFeedFlowM3h,
           systemHighestFlux |-> systemHighestFluxOf(c.loop.stageResults, c.highestFlux),
           systemHighestBeta |->
             IF c.loop.stageResults # <<>>
             THEN MathMaxSeq([i \in 1..Len(c.loop.stageResults) |-> c.loop.stageResults[i].highestBeta])
             ELSE c.beta,
           systemFeedPressurePsi |->
             IF c.loop.stageResults # <<>> THEN c.loop.stageResults[1].feedPressurePsi ELSE Zero,
           systemConcPressurePsi |->
             IF c.loop.stageResults # <<>>
             THEN c.loop.stageResults[Len(c.loop.stageResults)].concPressurePsi ELSE Zero])

\* lines 359-365
warningLocals_part000(c) ==
  With(c, [designWarnings |->
             designWarningsOf_part000(c.systemHighestFlux, c.flowUnit, c.feedFlowPerVesselM3h,
                                      c.systemConcPressurePsi, c.pressures.osmoticPressureFeed)])

\* the local variables of one run of this revision's calculateSystem
calculateSystemLocals_part000(in) ==
  warningLocals_part000(systemLocals_part000(stageLocals_part000(ionLocals_part000(
    fluxLocals_part000(areaLocals_part000(flowLocals_part000(inputLocals_part000(in))))))))

\* the object returned at lines 371-393
reportOf_part000(L) ==
  [results |->
     [avgFlux |-> ToFixed(L.avgFlux, 2),
      fluxUnit |-> IF L.flowUnit = "gpm" THEN "GFD" ELSE "LMH",
      highestFlux |-> ToFixed(L.systemHighestFlux, 2),
      feedFlowVessel |-> ToFixed(Div(L.feedFlowPerVesselM3h, L.unitFactor), 2),
      concFlowVessel |-> ToFixed(Div(L.concFlowPerVesselM3h, L.unitFactor), 2),
      feedPressure |-> ToFixed(L.systemFeedPressurePsi, 1),
      concPressure |-> ToFixed(L.systemConcPressurePsi, 1),
      highestBeta |-> ToFixed(L.systemHighestBeta, 3),
      permTDS |-> ToFixed(L.permeateTDS, 2),
      concTDS |-> ToFixed(L.concentrateTDS, 2),
      permPH |-> ToFixed(MathMin(MathMax(Sub(L.feedPhValue, Rat(169, 100)), Zero), Num(14)), 1),
      flowUnit |-> L.flowUnit],
   permeateIons |-> [i \in 1..Len(L.balance) |-> [ion |-> L.balance[i].ion, conc |-> L.balance[i].permeate]],
   concentrateIons |-> [i \in 1..Len(L.balance) |-> [ion |-> L.balance[i].ion, conc |-> L.balance[i].concentrate]],
   concentrateSaturation |-> concentrateSaturationOf(L.balance),
   concentrateParameters |->
     [osmoticPressure |-> ToFixed(L.pressures.osmoticPressure, 1),
      tds |-> ToFixed(L.concentrateTDS, 1)],
   permeateParameters |->
     [ph |-> ToFixed(MathMin(MathMax(Sub(L.feedPhValue, Rat(169, 100)), Zero), Num(14)), 1),
      tds |-> ToFixed(L.permeateTDS, 1)],
   stageResults |->
     [i \in 1..Len(L.stageResults) |->
        [index |-> L.stageResults[i].index, vessels |-> L.stageResults[i].vessels,
         feedPressurePsi |-> L.stageResults[i].feedPressurePsi,
         concPressurePsi |-> L.stageResults[i].concPressurePsi,
         feedFlow |-> L.stageResults[i].feedFlow, concFlow |-> L.stageResults[i].concFlow,
         flux |-> L.stageResults[i].flux, highestFlux |-> L.stageResults[i].highestFlux,
         highestBeta |-> L.stageResults[i].highestBeta,
         unit |-> L.stageResults[i].unit, fluxUnit |-> L.stageResults[i].fluxUnit]],
   designWarnings |-> L.designWarnings]

returned_part000(L) == <<L, reportOf_part000(L)>>

\* <<locals, report>> on return, <<>> when membranes.find is called on null (line 114)
calculateSystem_part000(in) ==
  IF in.membranes.kind = "null" THEN <<>> ELSE returned_part000(calculateSystemLocals_part000(in))

(***************************************************************************)
(* The caller: configurations and the calls made on them                    *)
(***************************************************************************)
MaxCalls == 3

Obj(items) == [kind |-> "object", items |-> items]
Arr(items) == [kind |-> "array", items |-> items]
Missing == [kind |-> "undefined", items |-> <<>>]
NullValue == [kind |-> "null", items |-> <<>>]

Ion(key, value) == [ion |-> key, conc |-> Num(value)]
Stage(v, e, model) == [vessels |-> Num(v), elementsPerVessel |-> Num(e), membraneModel |-> model]

ReferenceIons == Obj(<<Ion("ca", 120), Ion("na", 300), Ion("cl", 450), Ion("hco3", 150)>>)
ReferenceStages == Arr(<<Stage(6, 7, "")>>)

\* a caller-defined membrane whose boron rejection is overridden to zero
BoronPassMembrane ==
  [MEMBRANES[1] EXCEPT !.id = "custom", !.ionRejectionOverrides = <<[ion |-> "b", conc |-> Zero]>>]

TotalFlowInputs == {Undefined, Num(-50), Zero, Num(25), Num(50), Num(100)}
RecoveryInputs ==
  {Undefined, NaN, Num(-5), Zero, Rat(1, 2), One, Num(50), Num(75), Num(99), Num(100), Num(150)}
RetryRecoveries == {One, Num(50), Num(75), Num(99)}
StartRecoveries == {Num(50), Num(75)}
FlowUnitInputs == {"", "gpm", "m3/h", "m3/d", "xyz"}
FeedIonInputs ==
  {Missing, NullValue, Obj(<<>>), ReferenceIons, Obj(<<Ion("co2", 10)>>),
   Obj(<<Ion("b", 5)>>), Obj(<<Ion("Ca", 120), Ion("CO2", 10), Ion("NH4", 2)>>)}
MembraneInputs == {Missing, NullValue, Arr(MEMBRANES), Arr(<<BoronPassMembrane>>)}

Layout(stages, v, e) == [stages |-> stages, vessels |-> v, elementsPerVessel |-> e]
\* trains with at least one element
BuiltLayouts ==
  {Layout(ReferenceStages, Undefined, Undefined),
   Layout(Arr(<<Stage(1, 7, "")>>), Undefined, Undefined),
   Layout(Arr(<<Stage(10, 5, "cpa3")>>), Undefined, Undefined),
   Layout(Arr(<<Stage(4, 7, "espa2ld"), Stage(2, 7, "cpa3")>>), Undefined, Undefined),
   Layout(Arr(<<Stage(2, 0, ""), Stage(3, 7, "")>>), Undefined, Undefined),
   Layout(Missing, Num(6), Num(7))}
\* configurations that name no vessel at all
BareLayouts ==
  {Layout(Arr(<<Stage(0, 7, "")>>), Undefined, Undefined),
   Layout(NullValue, Undefined, Undefined)}

Config(tf, rec, unit, ph, ions, layout, membranes) ==
  [totalFlow |-> tf, recovery |-> rec, vessels |-> layout.vessels,
   elementsPerVessel |-> layout.elementsPerVessel, feedPH |-> ph, feedIons |-> ions,
   stages |-> layout.stages, membranes |-> membranes, flowUnit |-> unit,
   permeatePressure |-> Undefined, feedPressure |-> Undefined, membraneModel |-> "",
   membraneAge |-> Undefined, fluxDeclinePerYear |-> Undefined]

\* the configuration with a feed-pressure override and a permeate back-pressure
Pressurized(cfg, fp, pp) == [cfg EXCEPT !.feedPressure = fp, !.permeatePressure = pp]

\* the configuration with the membrane age in years and the yearly flux decline in percent
Aged(cfg, age, decline) == [cfg EXCEPT !.membraneAge = age, !.fluxDeclinePerYear = decline]

ReferenceLayout == Layout(ReferenceStages, Undefined, Undefined)

\* flow, unit and recovery varied on the reference train
FlowConfigs ==
  {Config(tf, rec, unit, Undefined, Obj(<<Ion("ca", 120)>>), ReferenceLayout, Arr(MEMBRANES)) :
     tf \in TotalFlowInputs, rec \in RecoveryInputs, unit \in FlowUnitInputs}

\* train layout, catalog and feed water varied at a fixed recovery
StructureConfigs ==
  {Config(tf, Num(50), unit, Undefined, ions, layout, membranes) :
     tf \in {Num(50), Num(100)}, unit \in {"gpm", "m3/h"}, ions \in FeedIonInputs,
     layout \in BuiltLayouts, membranes \in MembraneInputs}
  \cup
  {Config(Num(5), Num(50), unit, Undefined, ions, layout, membranes) :
     unit \in {"gpm", "m3/h"}, ions \in FeedIonInputs,
     layout \in BareLayouts, membranes \in MembraneInputs}

\* alkaline feed: carbonate speciation
AlkalineConfigs ==
  {Config(Num(50), Num(50), unit, Rat(85, 10), ions, ReferenceLayout, Arr(MEMBRANES)) :
     unit \in {"gpm", "m3/h"},
     ions \in {ReferenceIons, Obj(<<Ion("hco3", 150), Ion("co3", 3)>>), Obj(<<Ion("NH4", 2)>>)}}

\* units that take the conversion table and the area-based flux branch
ConversionConfigs ==
  {Config(tf, rec, unit, Undefined, Obj(<<Ion("co2", 10)>>), Layout(Missing, Num(6), Num(7)), membranes) :
     tf \in {Zero, One, Num(2)}, rec \in {Num(50), Num(75)}, unit \in {"mgd", "migd", "mld"},
     membranes \in {Missing, Arr(MEMBRANES)}}
  \cup
  {Config(Rat(1699, 5000), Num(50), "mgd", Undefined, Obj(<<Ion("co2", 10)>>), ReferenceLayout, membranes) :
     membranes \in {Missing, Arr(MEMBRANES)}}

\* recoveries at and beyond the clamp on every built train, with and without a catalog
BoundaryConfigs ==
  {Config(tf, rec, unit, Undefined, Obj(<<Ion("ca", 120)>>), layout, membranes) :
     tf \in {Zero, Num(50)}, rec \in {Zero, One, Num(99), Num(100)}, unit \in {"gpm", "m3/h"},
     layout \in BuiltLayouts, membranes \in {Missing, Arr(MEMBRANES)}}

FeedPressureInputs == {Null, Num(-5), Zero, Rat(1, 2), Num(10), Num(150)}
PermeatePressureInputs == {Undefined, Num(-10), Num(2)}

\* feed-pressure overrides and permeate back-pressures on one- and two-stage trains
PressureConfigs ==
  {Pressurized(Config(Num(50), Num(50), unit, Undefined, Obj(<<Ion("ca", 120)>>), layout, membranes), fp, pp) :
     unit \in {"gpm", "m3/h"}, fp \in FeedPressureInputs, pp \in PermeatePressureInputs,
     layout \in {ReferenceLayout,
                 Layout(Arr(<<Stage(4, 7, "espa2ld"), Stage(2, 7, "cpa3")>>), Undefined, Undefined)},
     membranes \in {Missing, Arr(MEMBRANES)}}

MembraneAgeInputs == {Undefined, Zero, Num(3)}
FluxDeclineInputs == {Undefined, Zero, Num(5)}

\* the reference train with membranes of several ages and yearly flux declines
AgedConfigs ==
  {Aged(Config(Num(50), Num(50), unit, Undefined, Obj(<<Ion("ca", 120)>>), ReferenceLayout, Arr(MEMBRANES)),
        age, decline) :
     unit \in {"gpm", "m3/h"}, age \in MembraneAgeInputs, decline \in FluxDeclineInputs}

\* feed maps whose concentrations sum to a negative or a non-numeric total
InvalidFeedInputs ==
  {Obj(<<Ion("ca", -120)>>), Obj(<<Ion("na", 300), Ion("cl", -450)>>),
   Obj(<<[ion |-> "ca", conc |-> NaN]>>)}

InvalidFeedConfigs ==
  {Config(Num(50), Num(50), unit, Undefined, ions, ReferenceLayout, Arr(MEMBRANES)) :
     unit \in {"gpm", "m3/h"}, ions \in InvalidFeedInputs}

\* a permeate flow in the units of the conversion table that the other caller sets
\* leave out: 35.679 m3/h in gpm, 50 m3/h as m3h, 41.667 m3/h in m3/d, m3d and mld
FamilyFlows ==
  {<<"gpm", Rat(891975, 5678)>>, <<"m3h", Num(50)>>,
   <<"m3/d", Rat(125001, 125)>>, <<"m3d", Rat(125001, 125)>>, <<"mld", One>>}

UnitConfigs ==
  {Config(uf[2], Num(50), uf[1], Undefined, Obj(<<Ion("ca", 120)>>), ReferenceLayout, Arr(MEMBRANES)) :
     uf \in FamilyFlows}

OneShotConfigs ==
  FlowConfigs \cup StructureConfigs \cup AlkalineConfigs \cup ConversionConfigs
  \cup BoundaryConfigs \cup PressureConfigs \cup AgedConfigs \cup InvalidFeedConfigs
  \cup UnitConfigs

\* configurations a caller re-evaluates at several recoveries
SessionConfigs ==
  {Config(Num(50), rec, unit, Undefined, ions, ReferenceLayout, membranes) :
     rec \in StartRecoveries, unit \in {"gpm", "m3/h"},
     ions \in {Obj(<<Ion("co2", 10)>>), Obj(<<Ion("b", 5)>>)},
     membranes \in {Arr(MEMBRANES), Arr(<<BoronPassMembrane>>)}}
  \cup
  {Config(Num(50), rec, "m3/h", Undefined, ReferenceIons, ReferenceLayout, Arr(MEMBRANES)) :
     rec \in StartRecoveries}

NoCall == [op |-> "none", at |-> 0, args |-> <<>>, out |-> <<>>]

VARIABLES
  inputs,     \* the caller's configuration object
  exports,    \* the module-level objects FLOW_TO_M3H, FLUX_CONSTANTS, MEMBRANES
  first,      \* the first call of calculateSystem: its arguments and what it returned
  last,       \* the most recent call of any operation
  callsLeft   \* calls the caller still makes

vars == <<inputs, exports, first, last, callsLeft>>

Init ==
  /\ \/ inputs \in OneShotConfigs /\ callsLeft = 1
     \/ inputs \in SessionConfigs /\ callsLeft = MaxCalls
  /\ exports = [FLOW_TO_M3H |-> FLOW_TO_M3H, FLUX_CONSTANTS |-> FLUX_CONSTANTS, MEMBRANES |-> MEMBRANES]
  /\ first = NoCall
  /\ last = NoCall

\* feedIons used in place, without the spread copy
SpreadAliases == FALSE

\* { ...(feedIons || {}) } allocates a new object: writes to it never reach the caller's map
SpreadAllocates == TRUE

\* the caller's configuration object after a run that normalized the feed map
inputsAfterNormalization(in, normalized) ==
  IF SpreadAllocates \/ in.feedIons.kind # "object" THEN in
  ELSE [in EXCEPT !.feedIons = Obj(normalized)]

\* the conversion table rewritten to the internal basis by a run
exportsRebased(ex) ==
  [ex EXCEPT !.FLOW_TO_M3H = [u \in DOMAIN ex.FLOW_TO_M3H |-> One]]

\* the module-level objects after a run: no statement of the three operations assigns to them
exportsAfterCall(ex) == ex

CallCalculateSystem ==
  /\ callsLeft > 0
  /\ last' = [op |-> "calculateSystem", at |-> callsLeft, args |-> <<inputs>>,
              out |-> calculateSystem(inputs, exports)]
  /\ first' = IF first.op = "none" THEN last' ELSE first
  /\ inputs' = IF last'.out = <<>> THEN inputs
               ELSE inputsAfterNormalization(inputs, last'.out[1].normalizedFeedIons)
  /\ callsLeft' = callsLeft - 1
  /\ exports' = exportsAfterCall(exports)

\* the configurations the earlier revision is driven with: the LMH units on 400 ft2
\* elements (0.2271247 * 4.402867 of its gpm branch and 404 * 0.09290304 have no
\* 32-bit quotient form)
DrivenInLMH(in) ==
  /\ flowUnitOf(in) # "gpm"
  /\ \A i \in 1..Len(in.stages.items) : in.stages.items[i].membraneModel \notin {"cpa3", "lfc3ld4040"}

CallCalculateSystem_part000 ==
  /\ callsLeft > 0
  /\ DrivenInLMH(inputs)
  /\ last' = [op |-> "calculateSystem_part000", at |-> callsLeft, args |-> <<inputs>>,
              out |-> calculateSystem_part000(inputs)]
  /\ callsLeft' = callsLeft - 1
  /\ exports' = exportsAfterCall(exports)
  /\ UNCHANGED <<inputs, first>>

CallCalculateIonPassage ==
  /\ callsLeft > 0
  /\ last' = [op |-> "calculateIonPassage", at |-> callsLeft, args |-> <<inputs>>,
              out |-> <<calculateIonPassage(inputs.feedIons, inputs)>>]
  /\ callsLeft' = callsLeft - 1
  /\ exports' = exportsAfterCall(exports)
  /\ UNCHANGED <<inputs, first>>

\* the config object the caller builds for its first stage
balanceConfigOf(in) ==
  [permeateFlow |-> in.totalFlow, flowUnit |-> in.flowUnit, recovery |-> in.recovery,
   stage1Vessels |-> IF in.stages.items # <<>> THEN in.stages.items[1].vessels ELSE in.vessels,
   elementsPerVessel |-> IF in.stages.items # <<>> THEN in.stages.items[1].elementsPerVessel
                         ELSE in.elementsPerVessel]

\* membranes[0], undefined rendered as the empty sequence
firstMembraneOf(in) == IF in.membranes.items # <<>> THEN <<in.membranes.items[1]>> ELSE <<>>

\* the caller sizes the first stage: config and membrane are taken from its configuration
CallRunHydraulicBalance ==
  /\ callsLeft > 0
  /\ last' = [op |-> "runHydraulicBalance", at |-> callsLeft, args |-> <<inputs>>,
              out |-> <<runHydraulicBalance(balanceConfigOf(inputs), firstMembraneOf(inputs), exports)>>]
  /\ callsLeft' = callsLeft - 1
  /\ exports' = exportsAfterCall(exports)
  /\ UNCHANGED <<inputs, first>>

\* having seen a report, the caller tries another recovery before its next call, holding
\* either the product flow or the feed flow of its first run
SetRecovery ==
  /\ callsLeft > 0
  /\ first.op # "none"
  /\ \E r \in RetryRecoveries, hold \in {"product", "feed"} :
       /\ r # inputs.recovery
       /\ inputs' = [inputs EXCEPT
                       !.recovery = r,
                       !.totalFlow = IF hold = "product" THEN first.args[1].totalFlow
                                     ELSE Mul(Div(first.args[1].totalFlow, first.args[1].recovery), r)]
  /\ UNCHANGED <<exports, first, last, callsLeft>>

Next ==
  \/ CallCalculateSystem
  \/ CallCalculateSystem_part000
  \/ CallCalculateIonPassage
  \/ CallRunHydraulicBalance
  \/ SetRecovery

Spec == Init /\ [][Next]_vars

(***************************************************************************)
(* Properties                                                              *)
(***************************************************************************)
Returned(c) == c.op = "calculateSystem" /\ c.out # <<>>

LastLocals == last.out[1]
LastReport == last.out[2]
FirstLocals == first.out[1]

\* a flow figure the caller can mean: a finite number that is not negative
ValidFlow(v) == IsFinite(ToNumber(v)) /\ Ge(ToNumber(v), Zero)

FlowsBalance(L) ==
  /\ NumEq(L.concentrateFlowTotalM3h, Sub(L.feedFlowTotalM3h, L.totalFlowM3h))
  /\ Ge(L.concentrateFlowTotalM3h, Zero)
  /\ NumEq(L.totalFlowM3h, Mul(L.feedFlowTotalM3h, L.recFrac))

IonsConserved(L) ==
  \A i \in 1..Len(L.balance) :
    NumEq(Mul(L.feedFlowTotalM3h, L.balance[i].feedConc),
          Add(Mul(L.totalFlowM3h, L.balance[i].permVal),
              Mul(L.concentrateFlowTotalM3h, L.balance[i].concVal)))

\* C2 as stated: in calculateSystem, in either revision of the engine, every ion of
\* the normalized feed map satisfies Qf * Cf = Qp * Cp + Qc * Cc on the unrounded
\* concentrations, at every recovery and for every flow that is a valid figure.
C2_IonConservation ==
  (/\ last.op \in {"calculateSystem", "calculateSystem_part000"}
   /\ last.out # <<>>
   /\ ValidFlow(last.args[1].totalFlow))
  => IonsConserved(LastLocals)

InRecoveryRange(pct) == IsFinite(pct) /\ Ge(pct, One) /\ Le(pct, Num(99))

\* C3: the recovery percentage used by calculateSystem, calculateIonPassage and
\* runHydraulicBalance lies in [1, 99] whatever value was supplied, so the recovery
\* fraction is neither 0 nor 1.
C3_RecoverySanitized ==
  /\ Returned(last) =>
       /\ InRecoveryRange(LastLocals.recoveryPct)
       /\ LastLocals.recFrac \notin {Zero, One}
  /\ last.op = "calculateIonPassage" => InRecoveryRange(last.out[1].recoveryPct)
  /\ last.op = "runHydraulicBalance" => InRecoveryRange(last.out[1].recoveryPercent)

C3_Witness ==
  /\ Returned(last)
  /\ last.args[1].recovery = Num(150)
  /\ LastLocals.recoveryPct = Num(99)

\* C4 as stated: calculateSystem returns a report for every configuration object,
\* a null membranes value included; it never ends in an error.
C4_AlwaysReturns == last.op = "calculateSystem" => last.out # <<>>

\* the highest flux of the configuration: average flux times beta, maximum over the
\* stages, an element whose membrane is not in the catalog counting 400 ft2
ConfigurationHighestFlux(L) ==
  IF L.stageResults = <<>> THEN L.highestFlux
  ELSE MathMaxSeq([i \in 1..Len(L.stageResults) |->
         LET sr == L.stageResults[i]
         IN Mul(stageAvgFluxValueOf(L.flowUnit, L.isGpm, sr.stagePermeateFlow,
                                    sr.stagePermeateFlowM3h, sr.vessels, sr.elements,
                                    stageAreaFactorOr400(sr.membrane), sr.stageAreaM2),
                L.beta)])

FluxCeiling(L) == IF L.isGpm THEN Num(20) ELSE Num(34)

HasWarning(L, w) == \E i \in 1..Len(L.designWarnings) : L.designWarnings[i] = w

\* C5 as stated: designWarnings of calculateSystem contains the flux warning exactly
\* when the configuration's highest flux exceeds the ceiling of its unit family
\* (20 GFD, 34 LMH), the catalog being supplied or empty.
C5_FluxWarningExact ==
  (Returned(last) /\ ValidFlow(last.args[1].totalFlow)) =>
    (HasWarning(LastLocals, FluxWarning)
       <=> Gt(ConfigurationHighestFlux(LastLocals), FluxCeiling(LastLocals)))

IsScenario(in, flow, stages) ==
  /\ in.totalFlow = Num(flow)
  /\ in.recovery = Num(50)
  /\ in.flowUnit = "gpm"
  /\ in.stages = stages
  /\ in.feedIons = ReferenceIons
  /\ in.membranes \in {Missing, Arr(MEMBRANES)}

\* C6 as stated: the reference scenario (flow 100 gpm, recovery 50 %, one stage of
\* 6 x 7, the reference feed ions) yields permeate 50 gpm, concentrate 50 gpm,
\* concentrate TDS above feed TDS and no design warning.
C6_ReferenceScenario ==
  (last.op = "calculateSystem" /\ IsScenario(last.args[1], 100, ReferenceStages)) =>
    /\ last.out # <<>>
    /\ NumEq(Div(LastLocals.totalFlowM3h, LastLocals.unitFactor), Num(50))
    /\ NumEq(Div(LastLocals.concentrateFlowTotalM3h, LastLocals.unitFactor), Num(50))
    /\ Gt(LastLocals.concentrateTDS, LastLocals.feedTDS)
    /\ LastLocals.designWarnings = <<>>

\* C7 as stated: the reference scenario with the stage reduced to one vessel gets the
\* flux warning.
C7_UndersizedScenario ==
  (last.op = "calculateSystem" /\ IsScenario(last.args[1], 100, Arr(<<Stage(1, 7, "")>>))) =>
    /\ last.out # <<>>
    /\ HasWarning(LastLocals, FluxWarning)

\* two distinct calls of calculateSystem on the same argument
CalledTwiceAlike ==
  /\ first.op = "calculateSystem"
  /\ last.op = "calculateSystem"
  /\ first.at # last.at
  /\ first.args = last.args

SameFeedOtherRecovery ==
  /\ Returned(first)
  /\ Returned(last)
  /\ [first.args[1] EXCEPT !.recovery = last.args[1].recovery,
                           !.totalFlow = last.args[1].totalFlow] = last.args[1]
  /\ NumEq(FirstLocals.feedFlowTotalM3h, LastLocals.feedFlowTotalM3h)
  /\ Gt(FirstLocals.feedFlowTotalM3h, Zero)
  /\ FirstLocals.recoveryPct # LastLocals.recoveryPct
  /\ FirstLocals.normalizedFeedIons # <<>>

LowerRecoveryRun == IF Lt(FirstLocals.recoveryPct, LastLocals.recoveryPct) THEN FirstLocals ELSE LastLocals
HigherRecoveryRun == IF Lt(FirstLocals.recoveryPct, LastLocals.recoveryPct) THEN LastLocals ELSE FirstLocals

MonotoneInRecovery ==
  /\ Gt(HigherRecoveryRun.concentrateTDS, LowerRecoveryRun.concentrateTDS)
  /\ Lt(HigherRecoveryRun.concentrateFlowTotalM3h, LowerRecoveryRun.concentrateFlowTotalM3h)

SomeIonRejected(L) ==
  \E i \in 1..Len(L.balance) :
    Gt(L.balance[i].feedConc, Zero) /\ Lt(L.balance[i].permVal, L.balance[i].feedConc)

ReportedFlowsAndPressures(R) ==
  {R.results.feedFlowVessel, R.results.concFlowVessel, R.results.feedPressure,
   R.results.concPressure, R.results.osmoticPressure}
  \cup {R.stageResults[i].feedFlow : i \in 1..Len(R.stageResults)}
  \cup {R.stageResults[i].concFlow : i \in 1..Len(R.stageResults)}
  \cup {R.stageResults[i].feedPressure : i \in 1..Len(R.stageResults)}
  \cup {R.stageResults[i].concPressure : i \in 1..Len(R.stageResults)}

AtBoundaryRecovery(L) == L.recoveryPct \in {One, Num(99)}

\* C11: for a finite non-negative permeate flow and a train with at least one vessel
\* and element, calculateSystem at recovery 1% and 99% (and at any supplied recovery
\* clamped onto them) reports only finite per-vessel flows and finite feed, concentrate
\* and osmotic pressures, at system and at stage level.
C11_BoundaryFinite ==
  (/\ Returned(last)
   /\ ValidFlow(last.args[1].totalFlow)
   /\ AtBoundaryRecovery(LastLocals)
   /\ Gt(LastLocals.totalElements, Zero))
  => \A v \in ReportedFlowsAndPressures(LastReport) : IsFinite(v)

C11_Witness ==
  /\ Returned(last)
  /\ last.args[1].recovery = Num(100)
  /\ LastLocals.recoveryPct = Num(99)
  /\ last.args[1].totalFlow = Num(50)
  /\ Len(LastReport.stageResults) = 2
  /\ \A v \in ReportedFlowsAndPressures(LastReport) : IsFinite(v)

\* the stage records chain: each stage is fed what the stage before it left over, and
\* what the last stage leaves over is the system concentrate
StageChainConserves(L) ==
  /\ L.stageResults # <<>> => NumEq(L.stageResults[1].stageFeedFlowM3h, L.feedFlowTotalM3h)
  /\ \A i \in 2..Len(L.stageResults) :
       NumEq(L.stageResults[i].stageFeedFlowM3h,
             Sub(L.stageResults[i - 1].stageFeedFlowM3h, L.stageResults[i - 1].stagePermeateFlowM3h))
  /\ NumEq(L.currentFeedFlowM3h, L.concentrateFlowTotalM3h)
  /\ NumEq(SumSeq([i \in 1..Len(L.stageResults) |-> L.stageResults[i].stagePermeateFlowM3h]),
           L.totalFlowM3h)

\* C12 as stated: in calculateSystem, for any list of configured stages and a valid
\* flow, the first stage is fed the system feed flow, every later stage is fed the
\* previous stage's feed minus its permeate cut, and the flow left after the last
\* stage is the system concentrate flow (the cuts sum to the system permeate flow),
\* also when a configured stage has vessels but zero elements per vessel.
C12_StageChain ==
  (/\ Returned(last)
   /\ ValidFlow(last.args[1].totalFlow)
   /\ LastLocals.activeStages # <<>>)
  => StageChainConserves(LastLocals)

\* the same number, NaN being the same figure as NaN
SameFigure(a, b) == a = b \/ NumEq(a, b)

\* Math.max over the highestFlux figures of the stage records
MaxStageHighestFlux(L) ==
  MathMaxSeq([i \in 1..Len(L.stageResults) |-> L.stageResults[i].highestFlux])

\* C13 as stated: when stage records exist, the highest flux used for the design-limit
\* check is the maximum of the stage highestFlux figures and results.highestFlux
\* reports that same figure; with no stage record it is system average flux x beta.
C13_SystemHighestFlux ==
  (/\ Returned(last) /\ ValidFlow(last.args[1].totalFlow))
  => IF LastLocals.stageResults # <<>>
     THEN /\ SameFigure(LastLocals.systemHighestFlux, MaxStageHighestFlux(LastLocals))
          /\ SameFigure(LastReport.results.highestFlux, MaxStageHighestFlux(LastLocals))
     ELSE NumEq(LastLocals.systemHighestFlux, Mul(LastLocals.displayFlux, LastLocals.beta))

\* C14 as stated: no report carries a negative concentrate pressure, neither for the
\* system nor for any stage, whatever the feed-pressure override and the train.
C14_ConcPressureNonNegative ==
  (/\ Returned(last) /\ ValidFlow(last.args[1].totalFlow))
  => /\ ~Lt(LastReport.results.concPressure, Zero)
     /\ \A i \in 1..Len(LastReport.stageResults) :
          ~Lt(LastReport.stageResults[i].concPressure, Zero)

\* feed pressure minus the pressure drop across the train, before any clamp
UnclampedConcPressureBar(L) == Sub(L.pressures.feedPressureBar, L.pressures.systemDeltaPBar)

\* C15 as stated: designWarnings holds the negative-concentrate-pressure warning
\* exactly when feed pressure minus the pressure drop across the train is negative.
C15_ConcPressureWarning ==
  (/\ Returned(last) /\ ValidFlow(last.args[1].totalFlow))
  => (Lt(UnclampedConcPressureBar(LastLocals), Zero) <=> HasWarning(LastReport, ConcPressureWarning))

\* the number of a pressure in the display unit: psi for gpm, bar otherwise
DisplayPressure(gpm, bar) == IF gpm THEN Mul(bar, BAR_TO_PSI) ELSE bar

\* Number(permeatePressure) || 0 of the call
PermeateBackPressure(in) == OrElse(ToNumber(Default(in.permeatePressure, Zero)), Zero)

\* the caller supplied a feed pressure above zero
OverridesFeedPressure(in) ==
  ~IsNull(Default(in.feedPressure, Null)) /\ Gt(ToNumber(Default(in.feedPressure, Null)), Zero)

\* the feed pressure in bar that flux, permeability and osmotic pressure give:
\* flux / A + average osmotic pressure + half the pressure drop + permeate back-pressure
NdpFeedPressureBar(L, in) ==
  LET p == osmoticPressures(pressureInputs(in, L.isGpm, L.activeMembrane, L.avgFluxLMH_calc,
                                           L.feedTDS, L.concentrateTDS))
  IN Add(Add(systemTMPBarOf(p), Div(p.systemDeltaPBar, Num(2))), Q2(p.permPressBar))

\* C16: a feedPressure above zero is reported as feedPressure + permeatePressure in the
\* display unit and the system concentrate pressure is that figure minus the pressure
\* drop, not below zero; a null, zero or negative feedPressure leaves the feed pressure
\* derived from flux, permeability and osmotic pressure in force.
C16_FeedPressureOverride ==
  (/\ Returned(last) /\ ValidFlow(last.args[1].totalFlow))
  => IF OverridesFeedPressure(last.args[1])
     THEN /\ NumEq(LastReport.results.feedPressure,
                   ToFixed(Add(ToNumber(last.args[1].feedPressure),
                               PermeateBackPressure(last.args[1])), 1))
          /\ NumEq(LastReport.results.concPressure,
                   ToFixed(MathMax(Sub(Add(ToNumber(last.args[1].feedPressure),
                                           PermeateBackPressure(last.args[1])),
                                       DisplayPressure(LastLocals.isGpm, One)), Zero), 1))
     ELSE NumEq(LastReport.results.feedPressure,
                ToFixed(DisplayPressure(LastLocals.isGpm,
                                        NdpFeedPressureBar(LastLocals, last.args[1])), 1))

\* a 150 psi override with 2 psi of back-pressure is reported as 152.0 and 137.5 psi
C16_Witness ==
  /\ Returned(last)
  /\ last.args[1].flowUnit = "gpm"
  /\ last.args[1].feedPressure = Num(150)
  /\ last.args[1].permeatePressure = Num(2)
  /\ LastReport.results.feedPressure = Num(152)
  /\ LastReport.results.concPressure = Rat(275, 2)

\* a zero override on a stream of 50 m3/h leaves a derived feed pressure above 1 bar
C16_WitnessDerived ==
  /\ Returned(last)
  /\ last.args[1].feedPressure = Zero
  /\ last.args[1].totalFlow = Num(50)
  /\ Gt(LastReport.results.feedPressure, One)

\* the rejection percentage the run applied to an ion of the feed
AppliedRejection(L, ionKey) ==
  getIonRejection(L.activeMembrane, classRejections(L.activeMembrane), ionKey)

\* C17 as stated: every rejection applied to an ion other than CO2, an override
\* included, lies in [60, 99.9], so the permeate concentration of the ion lies
\* between 0.1 % and 40 % of its feed concentration.
C17_RejectionRange ==
  Returned(last)
  => \A i \in 1..Len(LastLocals.balance) :
       LastLocals.balance[i].ion # "co2"
       => /\ Ge(AppliedRejection(LastLocals, LastLocals.balance[i].ion), Num(60))
          /\ Le(AppliedRejection(LastLocals, LastLocals.balance[i].ion), Rat(999, 10))
          /\ Ge(LastLocals.balance[i].permVal, Mul(LastLocals.balance[i].feedConc, Rat(1, 1000)))
          /\ Le(LastLocals.balance[i].permVal, Mul(LastLocals.balance[i].feedConc, Rat(4, 10)))

\* vessels x elements x per-element area of a stage record, 400 ft2 when its
\* membrane is not in the catalog
StageActiveArea(sr) == Mul(Mul(sr.vessels, sr.elements), stageAreaFactorOr400(sr.membrane))

\* the active area of the whole train
TrainActiveArea(L) ==
  SumSeq([i \in 1..Len(L.stageResults) |-> StageActiveArea(L.stageResults[i])])

\* C18 as stated: the permeate cut of each stage is the system permeate flow times
\* the stage's share of the total active membrane area.
C18_ApportionedByArea ==
  (/\ Returned(last) /\ ValidFlow(last.args[1].totalFlow)
   /\ Len(LastLocals.stageResults) = Len(LastLocals.activeStages))
  => \A i \in 1..Len(LastLocals.stageResults) :
       NumEq(Mul(LastLocals.stageResults[i].stagePermeateFlowM3h, TrainActiveArea(LastLocals)),
             Mul(LastLocals.totalFlowM3h, StageActiveArea(LastLocals.stageResults[i])))

\* Math.max(Number(membraneAge) || 0, 0) and the same of fluxDeclinePerYear
MembraneAgeYears(in) == MathMax(OrElse(ToNumber(Default(in.membraneAge, Zero)), Zero), Zero)
FluxDeclineOf(in) == MathMax(OrElse(ToNumber(Default(in.fluxDeclinePerYear, Zero)), Zero), Zero)

\* the membranes have aged: a positive age with a positive yearly flux decline
Derated(in) == Gt(MembraneAgeYears(in), Zero) /\ Gt(FluxDeclineOf(in), Zero)

\* C19 as stated: without an override, a run with aged membranes (age and yearly
\* flux decline both positive) has a feed pressure above the one the nominal
\* permeability gives; with age 0 or decline 0 it has the nominal feed pressure.
C19_AgeDerating ==
  (/\ Returned(last) /\ ValidFlow(last.args[1].totalFlow)
   /\ ~OverridesFeedPressure(last.args[1])
   /\ Gt(LastLocals.avgFluxLMH_calc, Zero))
  => IF Derated(last.args[1])
     THEN Gt(LastLocals.pressures.feedPressureBar, NdpFeedPressureBar(LastLocals, last.args[1]))
     ELSE NumEq(LastLocals.pressures.feedPressureBar, NdpFeedPressureBar(LastLocals, last.args[1]))

\* permeate flow over the total active area of the train, every stage counted with
\* the area of its own membrane: L/m2/h, and gal/ft2/day (1 GFD = 1.699 LMH) for gpm
FlowOverArea(L) ==
  IF L.isGpm
  THEN Div(Div(Mul(L.totalFlowM3h, Num(1000)), L.totalAreaM2), Rat(1699, 1000))
  ELSE Div(Mul(L.totalFlowM3h, Num(1000)), L.totalAreaM2)

\* within one percent of a positive reference
WithinOnePercent(x, ref) ==
  Le(Mul(ref, Rat(99, 100)), x) /\ Le(x, Mul(ref, Rat(101, 100)))

\* C20 as stated, the conversion constants taken to one percent: for every flow unit
\* the system average flux is the permeate flow divided by the total active area,
\* in GFD for gpm and in LMH otherwise.
C20_FluxIsFlowOverArea ==
  (/\ Returned(last) /\ ValidFlow(last.args[1].totalFlow)
   /\ Gt(LastLocals.totalFlowM3h, Zero)
   /\ Gt(LastLocals.totalElements, Zero))
  => WithinOnePercent(LastLocals.displayFlux, FlowOverArea(LastLocals))

\* the system feed flow of the call in m3/h over the vessels of its first active stage:
\* the caller's permeate flow converted with the unit table, over the recovery fraction
FeedPerFirstStageVessel(L, in) ==
  Div(Div(Mul(ToNumber(in.totalFlow), FLOW_TO_M3H[in.flowUnit]), L.recFrac),
      ToNumber(L.activeStages[1].vessels))

\* C21: the feed-flow-per-vessel warning is raised exactly when the system feed flow
\* over the number of first-stage vessels, in m3/h, is above 4.5, whatever the flow
\* unit of the call.
C21_VesselFlowWarning ==
  (/\ Returned(last)
   /\ last.args[1].flowUnit \in DOMAIN FLOW_TO_M3H
   /\ LastLocals.activeStages # <<>>)
  => (HasWarning(LastReport, VesselFlowWarning)
      <=> Gt(FeedPerFirstStageVessel(LastLocals, last.args[1]), Rat(45, 10)))

\* 100 gpm at 50 % recovery on six vessels is 7.57 m3/h per vessel: the warning is raised
C21_Witness ==
  /\ Returned(last)
  /\ last.args[1].flowUnit = "gpm"
  /\ last.args[1].totalFlow = Num(100)
  /\ LastLocals.recoveryPct = Num(50)
  /\ Len(LastLocals.activeStages) = 1
  /\ LastLocals.activeStages[1].vessels = Num(6)
  /\ HasWarning(LastReport, VesselFlowWarning)

\* 50 gpm at 50 % recovery on six vessels is 3.79 m3/h per vessel, though 50 / 0.5 / 6
\* is above 4.5: no warning
C21_WitnessBelow ==
  /\ Returned(last)
  /\ last.args[1].flowUnit = "gpm"
  /\ last.args[1].totalFlow = Num(50)
  /\ LastLocals.recoveryPct = Num(50)
  /\ Len(LastLocals.activeStages) = 1
  /\ LastLocals.activeStages[1].vessels = Num(6)
  /\ ~HasWarning(LastReport, VesselFlowWarning)

\* the osmotic pressure of the run is negative or not a finite number
InvalidOsmotic(L) ==
  ~IsFinite(L.pressures.displayOsmotic) \/ Lt(L.pressures.displayOsmotic, Zero)

\* C22 as stated: a report whose osmotic pressure is negative or not finite carries
\* the osmotic-pressure warning.
C22_OsmoticWarning ==
  Returned(last) => (InvalidOsmotic(LastLocals) => HasWarning(LastReport, OsmoticWarning))

\* the rejection the fixed table holds for an ion, its key read in any letter case
TableRejection(key) ==
  CASE ToLowerCase(key) = "ca" -> Rat(994, 1000) [] ToLowerCase(key) = "mg" -> Rat(994, 1000)
    [] ToLowerCase(key) = "na" -> Rat(990, 1000) [] ToLowerCase(key) = "k" -> Rat(985, 1000)
    [] ToLowerCase(key) = "cl" -> Rat(988, 1000) [] ToLowerCase(key) = "so4" -> Rat(997, 1000)
    [] ToLowerCase(key) = "hco3" -> Rat(980, 1000) [] ToLowerCase(key) = "no3" -> Rat(920, 1000)
    [] OTHER -> Rat(99, 100)

\* what the call is expected to give for entry i of its feed map
PassageExpected(out, entry) ==
  IF ToLowerCase(entry.ion) = "co2"
  THEN [permeate |-> feedConcOf(entry), concentrate |-> feedConcOf(entry)]
  ELSE [permeate |-> Mul(feedConcOf(entry),
                         Mul(Sub(One, TableRejection(entry.ion)), betaOf(Div(out.recoveryPct, Num(100))))),
        concentrate |-> Div(feedConcOf(entry), Sub(One, Div(out.recoveryPct, Num(100))))]

IonPassageByTable(out, ions) ==
  /\ Len(out.permeateIons) = Len(ions)
  /\ \A i \in 1..Len(ions) :
       /\ NumEq(out.permeateIons[i].conc, PassageExpected(out, ions[i]).permeate)
       /\ NumEq(out.concentrateIons[i].conc, PassageExpected(out, ions[i]).concentrate)
  /\ NumEq(out.permeateTDS,
           ToFixed(SumSeq([i \in 1..Len(ions) |-> out.permeateIons[i].conc]), 2))

\* C23 as stated: calculateIonPassage gives every ion other than CO2 the permeate
\* feed x (1 - table rejection) x beta and the concentrate feed / (1 - recovery),
\* passes CO2 unchanged, sums the permeate into permeateTDS, and reads the key of an
\* ion in any letter case.
C23_IonPassageTable ==
  last.op = "calculateIonPassage"
  => IonPassageByTable(last.out[1], entriesOf(last.args[1].feedIons))

\* the permeate flow of a balance config, in the caller's unit
BalancePermeate(config) == OrElse(ToNumber(config.permeateFlow), Zero)

\* the flows of the returned balance: feed = permeate / recovery fraction,
\* concentrate = feed - permeate, never negative for a permeate that is not
BalanceFlowsHold(out, config) ==
  /\ NumEq(out.permeateFlow, ToFixed(BalancePermeate(config), 2))
  /\ NumEq(out.feedFlow,
           ToFixed(Div(BalancePermeate(config), Div(out.recoveryPercent, Num(100))), 2))
  /\ NumEq(out.concentrateFlow,
           ToFixed(Sub(Div(BalancePermeate(config), Div(out.recoveryPercent, Num(100))),
                       BalancePermeate(config)), 2))
  /\ Ge(BalancePermeate(config), Zero) => Ge(out.concentrateFlow, Zero)

\* the config states its vessels and its elements per vessel as numbers
NumericLayout(config) ==
  IsFinite(ToNumber(config.stage1Vessels)) /\ IsFinite(ToNumber(config.elementsPerVessel))

\* totalElements is vessels x elements per vessel of the config, and no element, no flux
BalanceElementsHold(out, config) ==
  /\ NumEq(out.totalElements,
           Mul(ToNumber(config.stage1Vessels), ToNumber(config.elementsPerVessel)))
  /\ NumEq(Mul(ToNumber(config.stage1Vessels), ToNumber(config.elementsPerVessel)), Zero)
     => NumEq(out.calcFlux, Zero)

ZeroVesselConfig(in) ==
  /\ activeStagesOf(in.stages) = <<>>
  /\ NumEq(Mul(OrElse(ToNumber(in.vessels), Zero), OrElse(ToNumber(in.elementsPerVessel), Zero)), Zero)

\* C25 as stated: a configuration without any vessel is answered with a report that
\* has no stage record, a zero average and highest flux, and no flux warning.
C25_ZeroVessels ==
  (/\ last.op = "calculateSystem"
   /\ ZeroVesselConfig(last.args[1])
   /\ ~calculateSystemThrows(last.args[1])
   /\ ValidFlow(last.args[1].totalFlow))
  => /\ last.out # <<>>
     /\ LastReport.stageResults = <<>>
     /\ NumEq(LastReport.results.avgFlux, Zero)
     /\ NumEq(LastReport.results.highestFlux, Zero)
     /\ ~HasWarning(LastReport, FluxWarning)

\* two figures that differ by no more than the rounding of a one-decimal display
AgreeAsDisplayed(a, b) == Le(Sub(a, b), Rat(1, 10)) /\ Le(Sub(b, a), Rat(1, 10))

\* C26 as stated: in one report results.concTDS agrees with concentrateParameters.tds
\* and results.permTDS agrees with permeateParameters.tds, up to display rounding.
C26_OneTDS ==
  Returned(last)
  => /\ AgreeAsDisplayed(LastReport.results.concTDS, LastReport.concentrateParameters.tds)
     /\ AgreeAsDisplayed(LastReport.results.permTDS, LastReport.permeateParameters.tds)

\* a configuration of one stage with vessels and elements, a unit of the conversion
\* table, a positive permeate flow and a recovery between 1 and 99 percent
SingleStageConfig(in) ==
  /\ in.stages.kind = "array" /\ Len(in.stages.items) = 1
  /\ Gt(ToNumber(in.stages.items[1].vessels), Zero)
  /\ Gt(ToNumber(in.stages.items[1].elementsPerVessel), Zero)
  /\ in.stages.items[1].membraneModel = ""
  /\ in.membranes.kind = "array" /\ in.membranes.items # <<>>
  /\ in.flowUnit \in DOMAIN FLOW_TO_M3H
  /\ IsFinite(ToNumber(in.totalFlow)) /\ Gt(ToNumber(in.totalFlow), Zero)
  /\ IsFinite(ToNumber(in.recovery))
  /\ Ge(ToNumber(in.recovery), One) /\ Le(ToNumber(in.recovery), Num(99))

\* the returned balance and the locals and report of calculateSystem tell the same
\* flux, flux unit, total feed flow and total concentrate flow
BalanceAgrees(out, L, R) ==
  /\ NumEq(out.calcFlux, ToFixed(L.displayFlux, 1))
  /\ out.fluxUnit = R.results.fluxUnit
  /\ NumEq(out.feedFlow, ToFixed(Div(L.feedFlowTotalM3h, L.unitFactor), 2))
  /\ NumEq(out.concentrateFlow, ToFixed(Div(L.concentrateFlowTotalM3h, L.unitFactor), 2))

\* C27 as stated: for one single-stage configuration and every flow unit of the
\* conversion table, runHydraulicBalance reports the average flux, the flux unit and
\* the total feed and concentrate flow that calculateSystem computes.
C27_BalanceAgreesWithSystem ==
  (last.op = "runHydraulicBalance" /\ SingleStageConfig(last.args[1]))
  => /\ calculateSystem(last.args[1], exports) # <<>>
     /\ BalanceAgrees(last.out[1], calculateSystem(last.args[1], exports)[1],
                      calculateSystem(last.args[1], exports)[2])

\* the units of one family: the flux is reported in GFD for the first, in LMH for the second
FlowFamilyOf(unit) ==
  IF unit \in {"gpm", "mgd", "migd"} THEN {"gpm", "mgd", "migd"}
  ELSE IF unit \in {"m3/h", "m3/d", "mld"} THEN {"m3/h", "m3/d", "mld"}
  ELSE {unit}

\* the same physical permeate flow entered in another unit of the conversion table
InUnit(in, unit) ==
  [in EXCEPT !.flowUnit = unit,
             !.totalFlow = Div(Mul(in.totalFlow, FLOW_TO_M3H[in.flowUnit]), FLOW_TO_M3H[unit])]

WarningSet(R) == {R.designWarnings[i] : i \in 1..Len(R.designWarnings)}

\* two reports with the same average flux, highest flux and design warnings
SameFluxAndWarnings(R1, R2) ==
  /\ NumEq(R1.results.avgFlux, R2.results.avgFlux)
  /\ NumEq(R1.results.highestFlux, R2.results.highestFlux)
  /\ R1.results.fluxUnit = R2.results.fluxUnit
  /\ WarningSet(R1) = WarningSet(R2)

\* a configuration entered in gpm or in m3/d: 157.09 gpm is 0.2262 mgd and 0.1884 migd,
\* 1000.008 m3/d is 41.667 m3/h and 1.0000007 mld
FamilyConfig(in) ==
  /\ in \in UnitConfigs
  /\ in.flowUnit \in {"gpm", "m3/d"}

\* C28 as stated: the same physical permeate flow entered in two flow units of one
\* family (gpm, mgd, migd or m3/h, m3/d, mld, converted with FLOW_TO_M3H), everything
\* else equal, gives calculateSystem reports with the same average flux and highest
\* flux in the shared flux unit and the same set of design warnings.
C28_FlowUnitInvariance ==
  (Returned(last) /\ FamilyConfig(last.args[1]))
  => \A unit \in FlowFamilyOf(last.args[1].flowUnit) :
       /\ calculateSystem(InUnit(last.args[1], unit), exports) # <<>>
       /\ SameFluxAndWarnings(LastReport, calculateSystem(InUnit(last.args[1], unit), exports)[2])
====
